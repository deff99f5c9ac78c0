--------------------------- MODULE PlayoutProofs ---------------------------
(***************************************************************************)
(* Proofs about Playout: types, the soundness of the jitter ring, and -    *)
(* for senders whose counter does not wrap - that nothing buffered is      *)
(* discarded and nothing is decoded out of order.                          *)
(***************************************************************************)
EXTENDS Playout, FiniteSetTheorems, WellFoundedInduction, TLAPS

(***************************************************************************)
(* Arithmetic.                                                             *)
(***************************************************************************)

(* Distinct multiples of c are at least c apart. *)
LEMMA MultipleApart ==
    ASSUME NEW c \in Nat \ {0}, NEW p \in Int, NEW q \in Int, p < q
    PROVE  c * q >= c * p + c
<1>1. PICK d \in Nat : q = p + 1 + d
  <2>1. q - p - 1 \in Nat /\ q = p + 1 + (q - p - 1)
    OBVIOUS
  <2> QED BY <2>1
<1>2. c * q = c * p + c + c * d
  BY <1>1
<1>3. c * d >= 0
  OBVIOUS
<1> QED BY <1>2, <1>3

(* Two numbers less than a ring apart that share a slot are equal. *)
LEMMA ResidueUnique ==
    ASSUME NEW c \in Nat \ {0}, NEW a \in Nat, NEW b \in Nat,
           a % c = b % c, a <= b, b < a + c
    PROVE  a = b
<1>1. a = c * (a \div c) + (a % c) /\ b = c * (b \div c) + (b % c)
  OBVIOUS
<1>2. a \div c \in Int /\ b \div c \in Int /\ a % c \in Int
  OBVIOUS
<1>3. CASE a \div c = b \div c
  BY <1>1, <1>3
<1>4. CASE a \div c < b \div c
  <2>1. c * (b \div c) >= c * (a \div c) + c
    BY <1>2, <1>4, MultipleApart
  <2> QED BY <1>1, <1>2, <2>1
<1>5. CASE b \div c < a \div c
  <2>1. c * (a \div c) >= c * (b \div c) + c
    BY <1>2, <1>5, MultipleApart
  <2> QED BY <1>1, <1>2, <2>1
<1> QED BY <1>2, <1>3, <1>4, <1>5

(* The wrapping operations stay in range and undo each other. *)
LEMMA WrapRange ==
    ASSUME NEW a \in Seqs, NEW b \in Seqs
    PROVE  /\ WrapSub(a, b) \in Seqs
           /\ WrapAdd(b, WrapSub(a, b)) = a
           /\ \A k \in 0 .. Capacity : WrapSub(WrapAdd(b, k), b) = k
BY RingAssumption DEF WrapSub, WrapAdd, Seqs

LEMMA WrapAddRange ==
    ASSUME NEW a \in Seqs, NEW k \in 0 .. Capacity
    PROVE  WrapAdd(a, k) \in Seqs
BY RingAssumption DEF WrapAdd, Seqs

(* Moving the start of a window forward by k brings a packet k closer. *)
LEMMA WrapCloser ==
    ASSUME NEW a \in Seqs, NEW b \in Seqs, NEW k \in 0 .. Capacity,
           k <= WrapSub(a, b)
    PROVE  WrapSub(a, WrapAdd(b, k)) = WrapSub(a, b) - k
BY RingAssumption DEF WrapSub, WrapAdd, Seqs

LEMMA WrapAddTwice ==
    ASSUME NEW b \in Seqs, NEW j \in 0 .. Capacity, NEW k \in 0 .. Capacity
    PROVE  WrapAdd(WrapAdd(b, j), k) = WrapAdd(b, j + k)
BY RingAssumption DEF WrapAdd, Seqs

LEMMA IndexRange ==
    ASSUME NEW a \in Nat
    PROVE  Index(a) \in Indices
BY RingAssumption DEF Index, Indices

LEMMA SeqOfRange ==
    ASSUME NEW n \in Nat
    PROVE  SeqOf(n) \in Seqs
BY RingAssumption DEF SeqOf, Seqs

(***************************************************************************)
(* The window.                                                             *)
(***************************************************************************)
LEMMA DepthRange == Depth \in 0 .. Capacity
<1>1. IsFiniteSet(Indices) /\ Cardinality(Indices) = Capacity
  BY FS_Interval, RingAssumption DEF Indices
<1>2. Window \subseteq Indices
  BY DEF Window
<1>3. IsFiniteSet(Window) /\ Cardinality(Window) <= Cardinality(Indices)
  BY <1>1, <1>2, FS_Subset
<1>4. Cardinality(Window) \in Nat
  BY <1>3, FS_CardinalityType
<1> QED BY <1>1, <1>3, <1>4, RingAssumption DEF Depth

LEMMA RecordDepthType ==
    ASSUME NEW h \in Seq(0 .. Capacity), Len(h) <= AccelWindow
    PROVE  /\ RecordDepth(h) \in Seq(0 .. Capacity)
           /\ Len(RecordDepth(h)) <= AccelWindow
<1> DEFINE all == Append(h, Depth)
<1>1. all \in Seq(0 .. Capacity) /\ Len(all) = Len(h) + 1 /\ Len(h) \in Nat
  BY DepthRange
<1>2. CASE Len(all) > AccelWindow
  <2>1. all # << >>
    BY <1>1
  <2>2. Tail(all) \in Seq(0 .. Capacity) /\ Len(Tail(all)) = Len(all) - 1
    BY <1>1, <2>1
  <2> QED BY <1>1, <1>2, <2>2, PlayoutAssumption DEF RecordDepth
<1>3. CASE ~(Len(all) > AccelWindow)
  BY <1>1, <1>3, PlayoutAssumption DEF RecordDepth
<1> QED BY <1>2, <1>3

(* A set of ring offsets that is not empty has a least element. *)
LEMMA LeastOffset ==
    ASSUME Window # {}
    PROVE  \E o \in Window : \A p \in Window : o <= p
<1>1. Window \subseteq Nat
  BY DEF Window, Indices
<1>2. PICK o \in Window : \A p \in Window : ~(<<p, o>> \in OpToRel(<, Nat))
  BY <1>1, NatLessThanWellFounded, WFMin
<1>3. \A p \in Window : ~(p < o)
  BY <1>1, <1>2 DEF OpToRel
<1> QED BY <1>1, <1>3

(* skip_to_oldest lands on the buffered packet nearest to next_seq. *)
LEMMA OldestInWindow ==
    ASSUME Window # {}
    PROVE  \E o \in Window : /\ OldestSeq = WrapAdd(nextSeq, o)
                            /\ \A p \in Window : o <= p
<1> DEFINE m == CHOOSE o \in Window : \A p \in Window : o <= p
<1>1. m \in Window /\ \A p \in Window : m <= p
  BY LeastOffset
<1> QED BY <1>1 DEF OldestSeq

(***************************************************************************)
(* Type correctness, one lemma per action.                                 *)
(***************************************************************************)
LEMMA TypeInit == Init => TypeOK
<1> SUFFICES ASSUME Init PROVE TypeOK
  OBVIOUS
<1>1. << >> \in Seq(0 .. Capacity) /\ Len(<< >>) = 0
  OBVIOUS
<1>2. slots \in [Indices -> Seqs] /\ nextSeq \in Seqs
  BY RingAssumption DEF Init, NewStream, Seqs, Indices
<1>3. outOfWindow \in 0 .. ResyncAfter - 1 /\ target \in Targets
  BY RingAssumption, PlayoutAssumption DEF Init, NewStream, Targets
<1>4. /\ sent \in 0 .. MaxSent /\ restarts \in 0 .. MaxRestarts
      /\ hold \in 0 .. HoldFrames /\ newest \in 0 .. MaxSent
  BY PlayoutAssumption DEF Init, NewStream
<1>5. Len(depths) <= AccelWindow
  BY PlayoutAssumption DEF Init, NewStream
<1> QED BY <1>1, <1>2, <1>3, <1>4, <1>5 DEF Init, NewStream, TypeOK

LEMMA TypeSend == TypeOK /\ Send => TypeOK'
<1> SUFFICES ASSUME TypeOK, Send PROVE TypeOK'
  OBVIOUS
<1>1. sent' \in 0 .. MaxSent
  BY PlayoutAssumption DEF TypeOK, Send
<1> QED BY <1>1 DEF TypeOK, Send, ringVars, streamVars, ghostVars

LEMMA TypeRestart == TypeOK /\ Restart => TypeOK'
<1> SUFFICES ASSUME TypeOK, Restart PROVE TypeOK'
  OBVIOUS
<1>1. sent' \in 0 .. MaxSent /\ restarts' \in 0 .. MaxRestarts /\ newest' \in 0 .. MaxSent
  BY PlayoutAssumption DEF TypeOK, Restart
<1> QED BY <1>1 DEF TypeOK, Restart, ringVars, streamVars

LEMMA TypeOnPacket ==
    ASSUME TypeOK, NEW n \in 1 .. MaxSent, OnPacket(n)
    PROVE  TypeOK'
<1> DEFINE seq == SeqOf(n)
<1>1. seq \in Seqs /\ seq \in Nat
  BY SeqOfRange, PlayoutAssumption DEF Seqs
<1>2. Index(seq) \in Indices
  BY <1>1, IndexRange
<1> HIDE DEF seq
<1>3. /\ sent' = sent /\ restarts' = restarts
      /\ playing' = playing /\ hold' = hold /\ depths' = depths
  BY DEF OnPacket, senderVars
<1>4. newest' \in 0 .. MaxSent /\ deaf' \in Nat
  BY PlayoutAssumption DEF OnPacket, NoteHearing, TypeOK
<1>5. /\ slots' \in [Indices -> Seqs]
      /\ nextSeq' \in Seqs
      /\ started' \in BOOLEAN /\ provisional' \in BOOLEAN /\ idleWait' \in BOOLEAN
      /\ outOfWindow' \in 0 .. ResyncAfter - 1
      /\ target' \in Targets
      /\ lastOut' \in (Seqs \X Seqs) \union {None}
      /\ epoch' \in {0, 1}
  <2>1. CASE DropLate(seq)
    BY <2>1 DEF DropLate, TypeOK
  <2>2. CASE DropStray(seq)
    <3>1. outOfWindow' \in 0 .. ResyncAfter - 1
      BY <2>2, RingAssumption DEF DropStray, IsStray, IsResync, TypeOK
    <3> QED BY <2>2, <3>1 DEF DropStray, NoteArrival, TypeOK
  <2>3. CASE ResetTo(seq)
    BY <1>1, <2>3, RingAssumption, PlayoutAssumption
       DEF ResetTo, NoteArrival, TypeOK, Seqs, Indices, Targets
  <2>4. CASE Store(seq)
    <3>1. slots' \in [Indices -> Seqs]
      BY <1>1, <1>2, <2>4 DEF Store, TypeOK
    <3>2. nextSeq' \in Seqs
      BY <1>1, <2>4 DEF Store, TypeOK
    <3>3. outOfWindow' \in 0 .. ResyncAfter - 1
      BY <2>4, RingAssumption DEF Store
    <3> QED BY <2>4, <3>1, <3>2, <3>3 DEF Store, NoteArrival, TypeOK
  <2> QED BY <2>1, <2>2, <2>3, <2>4 DEF OnPacket, seq
<1> QED BY <1>3, <1>4, <1>5 DEF TypeOK

(* Where render starts: next_seq, or the packet skip_to_oldest finds. *)
LEMMA RenderStart ==
    ASSUME TypeOK, Render
    PROVE  \/ \E m \in Indices, h \in Seq(0 .. Capacity), q \in BOOLEAN :
                 /\ Len(h) <= AccelWindow
                 /\ m = 0 \/ m \in Window
                 /\ \A p \in Window : m <= p
                 /\ PlayPacket(WrapAdd(nextSeq, m), h, q)
           \/ ConcealLoss
           \/ Expand
           \/ GoIdle
           \/ KeepBuffering
<1>1. PICK quiet \in BOOLEAN :
         \/ RenderPlaying(quiet)
         \/ \E pull \in 1 .. MaxPull, waited \in BOOLEAN :
               RenderIdle(pull, waited, quiet)
  BY DEF Render
<1>2. CASE PlayPacket(nextSeq, RecordDepth(depths), quiet)
  <2>1. /\ RecordDepth(depths) \in Seq(0 .. Capacity)
        /\ Len(RecordDepth(depths)) <= AccelWindow
    BY RecordDepthType DEF TypeOK
  <2>2. 0 \in Indices /\ WrapAdd(nextSeq, 0) = nextSeq
    BY RingAssumption DEF Indices, WrapAdd, TypeOK, Seqs
  <2>3. \A p \in Window : 0 <= p
    BY DEF Window, Indices
  <2> HIDE DEF PlayPacket
  <2>4. PlayPacket(WrapAdd(nextSeq, 0), RecordDepth(depths), quiet)
    BY <1>2, <2>2
  <2> QED BY <2>1, <2>2, <2>3, <2>4
<1>3. CASE \E pull \in 1 .. MaxPull, waited \in BOOLEAN :
              RenderIdle(pull, waited, quiet)
  <2>1. PICK pull \in 1 .. MaxPull, waited \in BOOLEAN :
           RenderIdle(pull, waited, quiet)
    BY <1>3
  <2>2. CASE Activates(pull, waited)
    <3>1. PlayPacket(OldestSeq, RecordDepth(<< >>), quiet)
      BY <2>1, <2>2 DEF RenderIdle
    <3>2. PICK o \in Window : /\ OldestSeq = WrapAdd(nextSeq, o)
                              /\ \A p \in Window : o <= p
      BY <2>2, OldestInWindow DEF Activates
    <3>3. << >> \in Seq(0 .. Capacity) /\ Len(<< >>) <= AccelWindow
      BY PlayoutAssumption
    <3>4. /\ RecordDepth(<< >>) \in Seq(0 .. Capacity)
          /\ Len(RecordDepth(<< >>)) <= AccelWindow
      BY <3>3, RecordDepthType
    <3>5. o \in Indices
      BY DEF Window
    <3>6. PlayPacket(WrapAdd(nextSeq, o), RecordDepth(<< >>), quiet)
      BY <3>1, <3>2
    <3> QED BY <3>2, <3>4, <3>5, <3>6
  <2>3. CASE ~Activates(pull, waited)
    BY <2>1, <2>3 DEF RenderIdle
  <2> QED BY <2>2, <2>3
<1> QED BY <1>1, <1>2, <1>3 DEF RenderPlaying

LEMMA TypePlayPacket ==
    ASSUME TypeOK, NEW seq \in Seqs,
           NEW h \in Seq(0 .. Capacity), Len(h) <= AccelWindow, NEW q \in BOOLEAN,
           PlayPacket(seq, h, q)
    PROVE  TypeOK'
<1> DEFINE second == WrapAdd(seq, 1)
           last   == IF ShouldAccelerate(h, q) /\ Buffered(second) THEN second ELSE seq
<1>1. second \in Seqs /\ last \in Seqs
  <2>1. second \in Seqs
    BY WrapAddRange, RingAssumption
  <2> QED BY <2>1
<1>2. nextSeq' = WrapAdd(last, 1) /\ lastOut' = <<seq, last>>
  BY DEF PlayPacket, DecodedBy
<1> HIDE DEF last
<1>3. nextSeq' \in Seqs /\ lastOut' \in Seqs \X Seqs
  BY <1>1, <1>2, WrapAddRange, RingAssumption
<1>4. slots' \in [Indices -> Seqs]
  <2>1. 0 \in Seqs
    BY RingAssumption DEF Seqs
  <2> QED BY <2>1 DEF PlayPacket, TypeOK
<1>5. /\ depths' \in Seq(0 .. Capacity) /\ Len(depths') <= AccelWindow
  <2>1. << >> \in Seq(0 .. Capacity) /\ Len(<< >>) <= AccelWindow
    BY PlayoutAssumption
  <2>2. depths' = << >> \/ depths' = h
    BY DEF PlayPacket
  <2> QED BY <2>1, <2>2
<1>6. hold' \in 0 .. HoldFrames
  BY PlayoutAssumption DEF PlayPacket
<1> QED BY <1>3, <1>4, <1>5, <1>6 DEF PlayPacket, TypeOK, senderVars

LEMMA TypeRender == TypeOK /\ Render => TypeOK'
<1> SUFFICES ASSUME TypeOK, Render PROVE TypeOK'
  OBVIOUS
<1>1. /\ RecordDepth(depths) \in Seq(0 .. Capacity)
      /\ Len(RecordDepth(depths)) <= AccelWindow
  BY RecordDepthType DEF TypeOK
<1>2. ASSUME NEW m \in Indices, NEW h \in Seq(0 .. Capacity), NEW q \in BOOLEAN,
             Len(h) <= AccelWindow, PlayPacket(WrapAdd(nextSeq, m), h, q)
      PROVE  TypeOK'
  <2>1. WrapAdd(nextSeq, m) \in Seqs
    BY WrapAddRange, RingAssumption DEF TypeOK, Indices
  <2> QED BY <1>2, <2>1, TypePlayPacket
<1>3. CASE ConcealLoss
  <2>1. nextSeq' \in Seqs
    <3>1. nextSeq' = WrapAdd(nextSeq, 1) /\ nextSeq \in Seqs
      BY <1>3 DEF ConcealLoss, TypeOK
    <3>2. 1 \in 0 .. Capacity
      BY RingAssumption
    <3> QED BY <3>1, <3>2, WrapAddRange
  <2>2. slots' \in [Indices -> Seqs]
    <3>1. 0 \in Seqs
      BY RingAssumption DEF Seqs
    <3> QED BY <1>3, <3>1 DEF ConcealLoss, TypeOK
  <2>3. hold' \in 0 .. HoldFrames
    BY <1>3, PlayoutAssumption DEF ConcealLoss
  <2> HIDE DEF RecordDepth
  <2> QED BY <1>1, <1>3, <2>1, <2>2, <2>3
          DEF ConcealLoss, TypeOK, senderVars, ghostVars
<1>4. CASE Expand
  <2>1. hold' \in 0 .. HoldFrames
    BY <1>4, PlayoutAssumption DEF Expand, TypeOK
  <2> QED BY <1>1, <1>4, <2>1 DEF Expand, TypeOK, senderVars, ringVars, ghostVars
<1>5. CASE GoIdle
  <2>1. << >> \in Seq(0 .. Capacity) /\ Len(<< >>) <= AccelWindow
    BY PlayoutAssumption
  <2>2. hold' \in 0 .. HoldFrames
    BY <1>5, PlayoutAssumption DEF GoIdle
  <2> QED BY <1>5, <2>1, <2>2 DEF GoIdle, TypeOK, senderVars, ringVars, ghostVars
<1>6. CASE KeepBuffering
  BY <1>6 DEF KeepBuffering, TypeOK, senderVars, ringVars, ghostVars
<1> QED BY <1>2, <1>3, <1>4, <1>5, <1>6, RenderStart

LEMMA TypePrune == TypeOK /\ Prune => TypeOK'
<1> SUFFICES ASSUME TypeOK, Prune PROVE TypeOK'
  OBVIOUS
<1>1. << >> \in Seq(0 .. Capacity) /\ Len(<< >>) <= AccelWindow
  BY PlayoutAssumption
<1>2. slots' \in [Indices -> Seqs] /\ nextSeq' \in Seqs
  BY RingAssumption DEF Prune, Seqs, Indices
<1>3. outOfWindow' \in 0 .. ResyncAfter - 1 /\ target' \in Targets
  BY RingAssumption, PlayoutAssumption DEF Prune, Targets
<1>4. hold' \in 0 .. HoldFrames /\ epoch' \in {0, 1} /\ deaf' \in Nat
  BY PlayoutAssumption DEF Prune, TypeOK
<1> QED BY <1>1, <1>2, <1>3, <1>4 DEF Prune, TypeOK, senderVars

LEMMA TypeNext == TypeOK /\ [Next]_vars => TypeOK'
<1> SUFFICES ASSUME TypeOK, [Next]_vars PROVE TypeOK'
  OBVIOUS
<1>1. CASE UNCHANGED vars
  BY <1>1 DEF vars, TypeOK
<1> QED BY <1>1, TypeSend, TypeRestart, TypeOnPacket, TypeRender, TypePrune DEF Next

(* The ring and the stream keep their types; the stray counter and the     *)
(* hold stay below their limits and the depth history below its window.    *)
THEOREM TypeCorrect == Spec => []TypeOK
BY TypeInit, TypeNext, PTL DEF Spec

(***************************************************************************)
(* The ring.  WindowSound needs one more fact to be inductive: a stream    *)
(* that has not started has nothing buffered, so that its first packet may *)
(* anchor the window anywhere.                                             *)
(***************************************************************************)
UnstartedEmpty ==
    ~started => /\ \A i \in Indices : slots[i] = 0
                /\ ~playing
                /\ lastOut = None

RingInv == TypeOK /\ WindowSound /\ UnstartedEmpty

(* An occupied slot is one of the window's offsets. *)
LEMMA OccupiedInWindow ==
    ASSUME TypeOK, WindowSound, NEW i \in Indices, slots[i] # 0
    PROVE  /\ WrapSub(slots[i], nextSeq) \in Window
           /\ WrapAdd(nextSeq, WrapSub(slots[i], nextSeq)) = slots[i]
           /\ Index(slots[i]) = i
<1>1. slots[i] \in Seqs /\ nextSeq \in Seqs
  BY DEF TypeOK
<1>2. /\ WrapSub(slots[i], nextSeq) \in Seqs
      /\ WrapAdd(nextSeq, WrapSub(slots[i], nextSeq)) = slots[i]
  BY <1>1, WrapRange
<1>3. WrapSub(slots[i], nextSeq) \in Indices /\ Index(slots[i]) = i
  BY <1>2, RingAssumption DEF WindowSound, Indices, Seqs
<1> QED BY <1>2, <1>3 DEF Window, Buffered

LEMMA SoundOnPacket ==
    ASSUME RingInv, NEW n \in 1 .. MaxSent, OnPacket(n)
    PROVE  WindowSound' /\ UnstartedEmpty'
<1> DEFINE seq == SeqOf(n)
<1>1. seq \in Seqs /\ seq \in Nat
  BY SeqOfRange, PlayoutAssumption DEF Seqs
<1>2. Index(seq) \in Indices
  BY <1>1, IndexRange
<1> HIDE DEF seq
<1>3. nextSeq \in Seqs /\ slots \in [Indices -> Seqs]
  BY DEF RingInv, TypeOK
<1>4. CASE DropLate(seq) \/ DropStray(seq)
  <2>1. slots' = slots /\ nextSeq' = nextSeq /\ started' = started /\ lastOut' = lastOut
    BY <1>4 DEF DropLate, DropStray
  <2>2. playing' = playing
    BY DEF OnPacket
  <2> QED BY <2>1, <2>2 DEF RingInv, WindowSound, UnstartedEmpty
<1>5. CASE ResetTo(seq)
  <2>1. started
    <3>1. ~started => Anchor(seq) = seq /\ WrapSub(seq, seq) = 0
      BY <1>1 DEF Anchor, WrapSub, Seqs
    <3>2. ~started => ~SeqBefore(seq, Anchor(seq)) /\ ~IsAhead(seq)
      BY <3>1, RingAssumption DEF SeqBefore, IsAhead
    <3> QED BY <1>5, <3>2 DEF ResetTo, IsReset, IsRestart, IsResync
  <2>2. WrapSub(seq, seq) = 0
    BY <1>1 DEF WrapSub, Seqs
  <2>3. WindowSound'
    BY <1>1, <1>2, <1>5, <2>2, RingAssumption DEF ResetTo, WindowSound
  <2> QED BY <1>5, <2>1, <2>3 DEF ResetTo, UnstartedEmpty
<1>6. CASE Store(seq)
  <2>1. /\ slots' = [slots EXCEPT ![Index(seq)] = seq]
        /\ nextSeq' = IF ~started \/ IsReanchor(seq) THEN seq ELSE nextSeq
        /\ started'
    BY <1>6 DEF Store
  <2>2. WrapSub(seq, nextSeq') < Capacity
    <3>1. CASE ~started \/ IsReanchor(seq)
      <4>1. WrapSub(seq, seq) = 0
        BY <1>1 DEF WrapSub, Seqs
      <4> QED BY <2>1, <3>1, <4>1, RingAssumption
    <3>2. CASE started /\ ~IsReanchor(seq)
      <4>1. Anchor(seq) = nextSeq
        BY <3>2 DEF Anchor
      <4>2. ~SeqBefore(seq, nextSeq) /\ ~IsAhead(seq)
        BY <1>6, <3>2, <4>1
           DEF Store, IsStored, IsReset, IsLate, IsStray, IsResync
      <4>3. ~(WrapSub(seq, nextSeq) >= Capacity)
        BY <4>1, <4>2 DEF IsAhead
      <4>4. WrapSub(seq, nextSeq) \in Nat
        BY <1>1, <1>3, WrapRange DEF Seqs
      <4> QED BY <2>1, <3>2, <4>3, <4>4, RingAssumption
    <3> QED BY <3>1, <3>2
  <2>3. ASSUME NEW i \in Indices, slots[i] # 0
        PROVE  WrapSub(slots[i], nextSeq') < Capacity
    <3>1. started
      BY <2>3 DEF RingInv, UnstartedEmpty
    <3>2. CASE IsReanchor(seq)
      <4>1. /\ WrapSub(slots[i], nextSeq) \in Window
            /\ WrapAdd(nextSeq, WrapSub(slots[i], nextSeq)) = slots[i]
        BY <2>3, OccupiedInWindow DEF RingInv
      <4> QED BY <2>1, <3>2, <4>1 DEF IsReanchor, FitsFrom
    <3>3. CASE ~IsReanchor(seq)
      BY <2>1, <2>3, <3>1, <3>3 DEF RingInv, WindowSound
    <3> QED BY <3>2, <3>3
  <2>4. WindowSound'
    <3> SUFFICES ASSUME NEW i \in Indices, slots'[i] # 0
                 PROVE  Index(slots'[i]) = i /\ WrapSub(slots'[i], nextSeq') < Capacity
      BY DEF WindowSound
    <3>1. CASE i = Index(seq)
      BY <1>2, <1>3, <2>1, <2>2, <3>1
    <3>2. CASE i # Index(seq)
      <4>1. slots'[i] = slots[i]
        BY <1>3, <2>1, <3>2
      <4> QED BY <2>3, <4>1 DEF RingInv, WindowSound
    <3> QED BY <3>1, <3>2
  <2> QED BY <2>1, <2>4 DEF UnstartedEmpty
<1> QED BY <1>4, <1>5, <1>6 DEF OnPacket, seq

LEMMA SoundPlayPacket ==
    ASSUME TypeOK, WindowSound, started,
           NEW m \in Indices, \A p \in Window : m <= p,
           NEW h, NEW q, PlayPacket(WrapAdd(nextSeq, m), h, q)
    PROVE  WindowSound'
<1> DEFINE seq    == WrapAdd(nextSeq, m)
           second == WrapAdd(seq, 1)
           acc    == ShouldAccelerate(h, q) /\ Buffered(second)
           k      == IF acc THEN 2 ELSE 1
<1>1. m \in 0 .. Capacity /\ 1 \in 0 .. Capacity /\ m + 1 \in 0 .. Capacity
  BY RingAssumption DEF Indices
<1>2. nextSeq \in Seqs /\ seq \in Seqs /\ second = WrapAdd(nextSeq, m + 1)
  BY <1>1, WrapAddRange, WrapAddTwice DEF TypeOK
<1>3. nextSeq' = WrapAdd(seq, k)
  <2>1. second \in Seqs
    BY <1>1, <1>2, WrapAddRange
  <2>2. WrapAdd(second, 1) = WrapAdd(seq, 2)
    BY <1>2, RingAssumption DEF WrapAdd, Seqs
  <2> QED BY <2>2 DEF PlayPacket
<1> SUFFICES ASSUME NEW i \in Indices, slots'[i] # 0
             PROVE  Index(slots'[i]) = i /\ WrapSub(slots'[i], nextSeq') < Capacity
  BY DEF WindowSound
<1> DEFINE s == slots[i]
           o == WrapSub(s, nextSeq)
<1>4. /\ slots'[i] = s /\ s # 0
      /\ i # Index(seq)
      /\ acc => i # Index(second)
  BY DEF PlayPacket
<1> HIDE DEF acc
<1>5. s \in Seqs /\ o \in Window /\ WrapAdd(nextSeq, o) = s /\ Index(s) = i
  BY <1>4, OccupiedInWindow DEF TypeOK
<1>6. o \in Nat /\ o < Capacity /\ m <= o
  <2>1. o \in Indices
    BY <1>5 DEF Window
  <2>2. m <= o
    BY <1>5
  <2> QED BY <2>1, <2>2, RingAssumption DEF Indices
<1>7. o # m /\ (acc => o # m + 1)
  BY <1>2, <1>4, <1>5
<1> HIDE DEF o, s, second
<1>8. o >= m + k
  BY <1>1, <1>6, <1>7
<1>9. WrapSub(s, seq) = o - m
  BY <1>1, <1>2, <1>5, <1>6, WrapCloser DEF o
<1>10. WrapSub(s, nextSeq') = (o - m) - k
  <2>1. CASE k = 1
    BY <1>1, <1>2, <1>3, <1>5, <1>6, <1>8, <1>9, <2>1, WrapCloser
  <2>2. CASE k = 2
    <3> HIDE DEF seq
    <3>1. s \in Nat /\ seq \in Nat /\ s < SeqMod /\ seq < SeqMod
      BY <1>2, <1>5, RingAssumption DEF Seqs
    <3> QED BY <1>1, <1>3, <1>6, <1>8, <1>9, <2>2, <3>1, RingAssumption
            DEF WrapSub, WrapAdd
  <2> QED BY <2>1, <2>2
<1> QED BY <1>1, <1>4, <1>5, <1>6, <1>8, <1>10, RingAssumption

LEMMA SoundRender == RingInv /\ Render => WindowSound' /\ UnstartedEmpty'
<1> SUFFICES ASSUME RingInv, Render PROVE WindowSound' /\ UnstartedEmpty'
  OBVIOUS
<1>1. TypeOK /\ WindowSound /\ started
  BY DEF RingInv, Render
<1>2. ASSUME NEW m \in Indices, NEW h \in Seq(0 .. Capacity), NEW q \in BOOLEAN,
             \A p \in Window : m <= p, PlayPacket(WrapAdd(nextSeq, m), h, q)
      PROVE  WindowSound' /\ UnstartedEmpty'
  <2>1. WindowSound'
    BY <1>1, <1>2, SoundPlayPacket
  <2>2. started'
    BY <1>1, <1>2 DEF PlayPacket
  <2> QED BY <2>1, <2>2 DEF UnstartedEmpty
<1>3. CASE ConcealLoss
  <2>1. /\ slots' = [slots EXCEPT ![Index(nextSeq)] = 0]
        /\ nextSeq' = WrapAdd(nextSeq, 1)
        /\ started'
    BY <1>1, <1>3 DEF ConcealLoss
  <2>2. nextSeq \in Seqs /\ slots \in [Indices -> Seqs] /\ 1 \in 0 .. Capacity
    BY <1>1, RingAssumption DEF TypeOK
  <2>3. ASSUME NEW i \in Indices, slots'[i] # 0
        PROVE  Index(slots'[i]) = i /\ WrapSub(slots'[i], nextSeq') < Capacity
    <3>1. slots'[i] = slots[i] /\ slots[i] # 0 /\ i # Index(nextSeq)
      BY <2>1, <2>2, <2>3
    <3>2. slots[i] \in Seqs /\ Index(slots[i]) = i /\ WrapSub(slots[i], nextSeq) < Capacity
      BY <1>1, <2>2, <3>1 DEF WindowSound
    <3>3. slots[i] # nextSeq
      BY <3>1, <3>2
    <3>4. WrapSub(slots[i], nextSeq) \in Nat /\ WrapSub(slots[i], nextSeq) # 0
      BY <2>2, <3>2, <3>3, RingAssumption DEF WrapSub, Seqs
    <3>5. WrapSub(slots[i], WrapAdd(nextSeq, 1)) = WrapSub(slots[i], nextSeq) - 1
      BY <2>2, <3>2, <3>4, WrapCloser
    <3> QED BY <2>1, <3>1, <3>2, <3>4, <3>5, RingAssumption
  <2> QED BY <2>1, <2>3 DEF WindowSound, UnstartedEmpty
<1>4. CASE Expand \/ GoIdle \/ KeepBuffering
  <2>1. slots' = slots /\ nextSeq' = nextSeq /\ started' = started
    BY <1>4 DEF Expand, GoIdle, KeepBuffering, ringVars
  <2> QED BY <1>1, <2>1 DEF WindowSound, UnstartedEmpty
<1> QED BY <1>1, <1>2, <1>3, <1>4, RenderStart

LEMMA RingInvariant == Spec => []RingInv
<1>1. Init => RingInv
  <2> SUFFICES ASSUME Init PROVE WindowSound /\ UnstartedEmpty
    BY TypeInit DEF RingInv
  <2> QED BY DEF Init, NewStream, WindowSound, UnstartedEmpty
<1>2. RingInv /\ [Next]_vars => RingInv'
  <2> SUFFICES ASSUME RingInv, [Next]_vars PROVE WindowSound' /\ UnstartedEmpty'
    BY TypeNext DEF RingInv
  <2>1. CASE UNCHANGED <<slots, nextSeq, started, playing, lastOut>>
    BY <2>1 DEF RingInv, WindowSound, UnstartedEmpty
  <2>2. CASE Send \/ Restart \/ UNCHANGED vars
    BY <2>1, <2>2 DEF Send, Restart, vars, ringVars, streamVars, ghostVars
  <2>3. ASSUME NEW n \in 1 .. MaxSent, OnPacket(n)
        PROVE  WindowSound' /\ UnstartedEmpty'
    BY <2>3, SoundOnPacket
  <2>4. CASE Render
    BY <2>4, SoundRender
  <2>5. CASE Prune
    BY <2>5 DEF Prune, WindowSound, UnstartedEmpty
  <2> QED BY <2>2, <2>3, <2>4, <2>5 DEF Next
<1> QED BY <1>1, <1>2, PTL DEF Spec

(* The ring never holds a packet from outside its window, for every ring   *)
(* size, delay and loss, and across a wrap of the sequence counter too.    *)
THEOREM RingIsSound == Spec => []WindowSound
<1>1. RingInv => WindowSound
  BY DEF RingInv
<1> QED BY <1>1, RingInvariant, PTL

(***************************************************************************)
(* The order of decoding.  Without a wrap the sequence numbers at hand are *)
(* ordered as numbers: everything decoded lies below next_seq, and the     *)
(* start may be moved back only while nothing has been.                    *)
(***************************************************************************)
Ordered ==
    /\ nextSeq <= MaxSent + 1
    /\ started => nextSeq >= 1
    /\ \A i \in Indices : slots[i] <= MaxSent
    /\ lastOut # None => ~provisional /\ lastOut[2] < nextSeq

LEMMA OrderedPlay ==
    ASSUME NoWrap, TypeOK, started, Ordered, NEW m \in Indices, NEW h, NEW q,
           PlayPacket(WrapAdd(nextSeq, m), h, q)
    PROVE  /\ WrapAdd(nextSeq, m) = nextSeq + m
           /\ nextSeq + m <= MaxSent
           /\ \/ lastOut' = <<nextSeq + m, nextSeq + m>>
              \/ /\ lastOut' = <<nextSeq + m, nextSeq + m + 1>>
                 /\ nextSeq + m + 1 <= MaxSent
                 /\ slots[Index(nextSeq + m + 1)] = nextSeq + m + 1
           /\ nextSeq' = lastOut'[2] + 1
           /\ Ordered'
<1> DEFINE seq    == nextSeq + m
           second == WrapAdd(seq, 1)
           acc    == ShouldAccelerate(h, q) /\ Buffered(second)
           last   == IF acc THEN second ELSE seq
<1>1. nextSeq \in Nat /\ nextSeq <= MaxSent + 1 /\ nextSeq >= 1
  BY RingAssumption DEF TypeOK, Seqs, Ordered
<1>2. m \in Nat /\ m < Capacity
  BY RingAssumption DEF Indices
<1>3. WrapAdd(nextSeq, m) = seq /\ seq \in Nat
  BY <1>1, <1>2, RingAssumption, PlayoutAssumption DEF WrapAdd, NoWrap
<1>4. slots[Index(seq)] = seq /\ Index(seq) \in Indices
  BY <1>3, IndexRange DEF PlayPacket
<1>5. seq <= MaxSent
  BY <1>4 DEF Ordered
<1>6. second = seq + 1
  BY <1>3, <1>5, RingAssumption, PlayoutAssumption DEF WrapAdd, NoWrap
<1>7. acc => slots[Index(second)] = second /\ second <= MaxSent
  <2>1. Index(second) \in Indices
    BY <1>3, <1>6, IndexRange
  <2> QED BY <2>1 DEF Buffered, Ordered
<1>8. lastOut' = <<seq, last>> /\ nextSeq' = WrapAdd(last, 1) /\ ~provisional'
  BY <1>3 DEF PlayPacket, DecodedBy
<1>9. last \in Nat /\ last <= MaxSent
  BY <1>3, <1>5, <1>6, <1>7
<1>10. nextSeq' = last + 1
  <2> HIDE DEF last
  <2> QED BY <1>8, <1>9, RingAssumption, PlayoutAssumption DEF WrapAdd, NoWrap
<1>11. \A i \in Indices : slots'[i] <= MaxSent
  BY PlayoutAssumption DEF PlayPacket, Ordered
<1>12. Ordered'
  <2> HIDE DEF last
  <2> QED BY <1>8, <1>9, <1>10, <1>11, PlayoutAssumption DEF Ordered
<1> QED BY <1>3, <1>5, <1>6, <1>7, <1>8, <1>10, <1>12

LEMMA OrderedOnPacket ==
    ASSUME NoWrap, RingInv, Ordered, NEW n \in 1 .. MaxSent, OnPacket(n)
    PROVE  Ordered' /\ SeqOf(n) = n
<1>1. SeqOf(n) = n /\ n \in Nat /\ n >= 1 /\ n <= MaxSent
  BY RingAssumption, PlayoutAssumption DEF SeqOf, NoWrap
<1>2. nextSeq \in Nat /\ slots \in [Indices -> Seqs] /\ Index(n) \in Indices
  BY <1>1, IndexRange DEF RingInv, TypeOK, Seqs
<1>3. CASE DropLate(n) \/ DropStray(n)
  BY <1>1, <1>3 DEF DropLate, DropStray, Ordered
<1>4. CASE ResetTo(n)
  BY <1>1, <1>4, PlayoutAssumption DEF ResetTo, Ordered
<1>5. CASE Store(n)
  <2>1. \A i \in Indices : slots'[i] <= MaxSent
    BY <1>1, <1>2, <1>5 DEF Store, Ordered
  <2>2. nextSeq' <= MaxSent + 1 /\ nextSeq' >= 1
    BY <1>1, <1>2, <1>5, PlayoutAssumption DEF Store, Ordered
  <2>3. lastOut # None => nextSeq' = nextSeq
    BY <1>5 DEF Store, IsReanchor, Ordered, RingInv, UnstartedEmpty
  <2>4. lastOut' = lastOut /\ provisional' = provisional
    BY <1>5 DEF Store
  <2>5. lastOut' # None => ~provisional' /\ lastOut'[2] < nextSeq'
    BY <2>3, <2>4 DEF Ordered
  <2>6. Ordered'
    BY <2>1, <2>2, <2>5 DEF Ordered
  <2> QED BY <1>1, <2>6
<1> QED BY <1>1, <1>3, <1>4, <1>5 DEF OnPacket

LEMMA OrderedConceal ==
    ASSUME NoWrap, TypeOK, Ordered, ConcealLoss
    PROVE  Ordered' /\ nextSeq' = nextSeq + 1
<1>1. PICK off \in Indices \ {0} : Buffered(WrapAdd(nextSeq, off))
  BY DEF ConcealLoss, HasFuture
<1>2. nextSeq \in Nat /\ nextSeq <= MaxSent + 1 /\ off \in Nat /\ 1 <= off /\ off < Capacity
  BY RingAssumption DEF TypeOK, Seqs, Ordered, Indices
<1>3. WrapAdd(nextSeq, off) = nextSeq + off
  BY <1>2, RingAssumption, PlayoutAssumption DEF WrapAdd, NoWrap
<1>4. nextSeq + off <= MaxSent
  <2>1. Index(nextSeq + off) \in Indices
    BY <1>2, IndexRange
  <2> QED BY <1>1, <1>3, <2>1 DEF Buffered, Ordered
<1>5. nextSeq' = nextSeq + 1
  BY <1>2, <1>4, RingAssumption, PlayoutAssumption DEF ConcealLoss, WrapAdd, NoWrap
<1>6. \A i \in Indices : slots'[i] <= MaxSent
  BY PlayoutAssumption DEF ConcealLoss, Ordered, TypeOK
<1>7. lastOut # None => lastOut[2] \in Nat
  BY DEF TypeOK, Seqs
<1> QED BY <1>2, <1>4, <1>5, <1>6, <1>7, PlayoutAssumption
        DEF ConcealLoss, Ordered, ghostVars

LEMMA OrderedInvariant == Spec => [](NoWrap => Ordered)
<1>1. Init => (NoWrap => Ordered)
  BY PlayoutAssumption DEF Init, NewStream, Ordered
<1>2. RingInv /\ (NoWrap => Ordered) /\ [Next]_vars => (NoWrap => Ordered)'
  <2> SUFFICES ASSUME RingInv, NoWrap, Ordered, [Next]_vars PROVE Ordered'
    OBVIOUS
  <2>1. TypeOK
    BY DEF RingInv
  <2>2. CASE UNCHANGED <<slots, nextSeq, started, provisional, lastOut>>
    BY <2>2 DEF Ordered
  <2>3. CASE Send \/ Restart \/ UNCHANGED vars
    BY <2>2, <2>3 DEF Send, Restart, vars, ringVars, ghostVars
  <2>4. ASSUME NEW n \in 1 .. MaxSent, OnPacket(n)
        PROVE  Ordered'
    BY <2>4, OrderedOnPacket
  <2>5. CASE Render
    <3>1. started
      BY <2>5 DEF Render
    <3>2. CASE Expand \/ GoIdle \/ KeepBuffering
      BY <2>2, <3>2 DEF Expand, GoIdle, KeepBuffering, ringVars, ghostVars
    <3>3. CASE ConcealLoss
      BY <2>1, <3>3, OrderedConceal
    <3>4. ASSUME NEW m \in Indices, NEW h, NEW q, PlayPacket(WrapAdd(nextSeq, m), h, q)
          PROVE  Ordered'
      BY <2>1, <3>1, <3>4, OrderedPlay
    <3> QED BY <2>1, <2>5, <3>2, <3>3, <3>4, RenderStart
  <2>6. CASE Prune
    BY <2>6, PlayoutAssumption DEF Prune, Ordered
  <2> QED BY <2>3, <2>4, <2>5, <2>6 DEF Next
<1> QED BY <1>1, <1>2, RingInvariant, PTL DEF Spec

(* Duplicates, reordering, loss, skips, acceleration and concealment never *)
(* make the decoder see a packet of a stream again or behind a later one.  *)
THEOREM DecodingIsOrdered == Spec => DecodedInOrder
<1> DEFINE InOrder == NoWrap /\ lastOut # None /\ epoch' = epoch /\ lastOut' # lastOut
                        => SeqBefore(lastOut[2], lastOut'[1])
<1>1. RingInv /\ (NoWrap => Ordered) /\ [Next]_vars => [InOrder]_vars
  <2> SUFFICES ASSUME RingInv, NoWrap, Ordered, Next,
                      lastOut # None, epoch' = epoch, lastOut' # lastOut
               PROVE  SeqBefore(lastOut[2], lastOut'[1])
    OBVIOUS
  <2>1. TypeOK
    BY DEF RingInv
  <2>2. ~Send /\ ~Restart
    BY DEF Send, Restart, ghostVars
  <2>3. ~\E n \in 1 .. MaxSent : OnPacket(n)
    BY <2>1 DEF OnPacket, DropLate, DropStray, ResetTo, Store, TypeOK
  <2>4. ~Prune
    BY <2>1 DEF Prune, TypeOK
  <2>5. Render /\ started
    BY <2>2, <2>3, <2>4 DEF Next, Render
  <2>6. ~(ConcealLoss \/ Expand \/ GoIdle \/ KeepBuffering)
    BY DEF ConcealLoss, Expand, GoIdle, KeepBuffering, ghostVars
  <2>7. PICK m \in Indices, h \in Seq(0 .. Capacity), q \in BOOLEAN :
           PlayPacket(WrapAdd(nextSeq, m), h, q)
    BY <2>1, <2>5, <2>6, RenderStart
  <2>8. lastOut'[1] = nextSeq + m /\ nextSeq + m <= MaxSent
    BY <2>1, <2>5, <2>7, OrderedPlay
  <2>9. nextSeq \in Nat /\ m \in Nat /\ lastOut[2] \in Nat /\ lastOut[2] < nextSeq
    BY <2>1, RingAssumption DEF TypeOK, Seqs, Indices, Ordered
  <2> QED BY <2>8, <2>9, RingAssumption, PlayoutAssumption
          DEF SeqBefore, WrapSub, NoWrap
<1> QED BY <1>1, RingInvariant, OrderedInvariant, PTL DEF Spec, DecodedInOrder

(* Slots of one window that collide hold the same packet. *)
LEMMA SameSlot ==
    ASSUME NoWrap, NEW a \in Nat, NEW b \in Nat, NEW start \in Nat,
           a <= MaxSent, b <= MaxSent, start <= MaxSent + 1,
           WrapSub(a, start) < Capacity, WrapSub(b, start) < Capacity,
           Index(a) = Index(b)
    PROVE  a = b
<1>1. start <= a /\ a < start + Capacity /\ start <= b /\ b < start + Capacity
  BY RingAssumption, PlayoutAssumption DEF WrapSub, NoWrap
<1>2. CASE a <= b
  BY <1>1, <1>2, ResidueUnique, RingAssumption DEF Index
<1>3. CASE b <= a
  BY <1>1, <1>3, ResidueUnique, RingAssumption DEF Index
<1> QED BY <1>2, <1>3

(* Whatever arrives or is rendered, a buffered packet leaves the ring only *)
(* to be decoded or with the whole buffer.                                 *)
THEOREM BufferedIsDecoded == Spec => NothingDiscarded
<1> DEFINE Kept == NoWrap =>
                     \A i \in Indices :
                        slots[i] # 0 /\ slots'[i] # slots[i] =>
                           \/ epoch' # epoch
                           \/ lastOut' # None /\ slots[i] \in {lastOut'[1], lastOut'[2]}
<1>1. RingInv /\ RingInv' /\ (NoWrap => Ordered) /\ (NoWrap => Ordered)' /\ [Next]_vars
        => [Kept]_vars
  <2> SUFFICES ASSUME RingInv, RingInv', NoWrap, Ordered, Ordered', Next,
                      NEW i \in Indices, slots[i] # 0, slots'[i] # slots[i], epoch' = epoch
               PROVE  lastOut' # None /\ slots[i] \in {lastOut'[1], lastOut'[2]}
    OBVIOUS
  <2>1. TypeOK /\ WindowSound
    BY DEF RingInv
  <2>2. slots \in [Indices -> Seqs] /\ slots[i] \in Nat /\ slots[i] <= MaxSent
    BY <2>1 DEF TypeOK, Seqs, Ordered
  <2>3. Index(slots[i]) = i /\ WrapSub(slots[i], nextSeq) < Capacity
    BY <2>1 DEF WindowSound
  <2>4. nextSeq \in Nat /\ nextSeq <= MaxSent + 1 /\ nextSeq' \in Nat /\ nextSeq' <= MaxSent + 1
    BY DEF RingInv, TypeOK, Seqs, Ordered
  <2>5. ~Send /\ ~Restart /\ ~Prune
    BY <2>1 DEF Send, Restart, Prune, ringVars, TypeOK
  <2>6. ASSUME NEW n \in 1 .. MaxSent, OnPacket(n)
        PROVE  FALSE
    <3>1. SeqOf(n) = n /\ n \in Nat /\ n <= MaxSent
      BY <2>6, OrderedOnPacket, PlayoutAssumption
    <3>2. Store(n)
      BY <2>1, <2>6, <3>1 DEF OnPacket, DropLate, DropStray, ResetTo, TypeOK
    <3>3. i = Index(n) /\ slots'[i] = n /\ n # slots[i]
      BY <2>2, <3>2 DEF Store
    <3>4. WrapSub(n, nextSeq') < Capacity
      BY <2>6, <3>1, <3>3 DEF RingInv, WindowSound
    <3>5. WrapSub(slots[i], nextSeq') < Capacity
      <4>1. CASE IsReanchor(n)
        <5>1. /\ WrapSub(slots[i], nextSeq) \in Window
              /\ WrapAdd(nextSeq, WrapSub(slots[i], nextSeq)) = slots[i]
          BY <2>1, OccupiedInWindow
        <5> QED BY <3>2, <4>1, <5>1 DEF Store, IsReanchor, FitsFrom
      <4>2. CASE ~IsReanchor(n)
        BY <2>3, <3>2, <4>2 DEF Store, RingInv, UnstartedEmpty
      <4> QED BY <4>1, <4>2
    <3> QED BY <2>2, <2>3, <2>4, <3>1, <3>3, <3>4, <3>5, SameSlot
  <2>7. Render /\ started
    BY <2>5, <2>6 DEF Next, Render
  <2>8. ~(Expand \/ GoIdle \/ KeepBuffering)
    BY DEF Expand, GoIdle, KeepBuffering, ringVars
  <2>9. ~ConcealLoss
    <3> SUFFICES ASSUME ConcealLoss PROVE FALSE
      OBVIOUS
    <3>1. i = Index(nextSeq) /\ slots[i] # nextSeq
      BY <2>2 DEF ConcealLoss
    <3>2. nextSeq <= MaxSent /\ WrapSub(nextSeq, nextSeq) < Capacity
      <4>1. nextSeq' = nextSeq + 1
        BY <2>1, OrderedConceal
      <4>2. WrapSub(nextSeq, nextSeq) = 0
        BY <2>4 DEF WrapSub
      <4> QED BY <2>4, <4>1, <4>2, RingAssumption, PlayoutAssumption
    <3> QED BY <2>2, <2>3, <2>4, <3>1, <3>2, SameSlot
  <2>10. PICK m \in Indices, h \in Seq(0 .. Capacity), q \in BOOLEAN :
            PlayPacket(WrapAdd(nextSeq, m), h, q)
    BY <2>1, <2>7, <2>8, <2>9, RenderStart
  <2>11. WrapAdd(nextSeq, m) = nextSeq + m
    BY <2>1, <2>7, <2>10, OrderedPlay
  <2> DEFINE seq    == WrapAdd(nextSeq, m)
             second == WrapAdd(seq, 1)
             acc    == ShouldAccelerate(h, q) /\ Buffered(second)
  <2>12. /\ slots[Index(seq)] = seq
         /\ i = Index(seq) \/ (acc /\ i = Index(second))
         /\ lastOut' = <<seq, IF acc THEN second ELSE seq>>
    BY <2>2, <2>10 DEF PlayPacket, DecodedBy
  <2>13. acc => slots[Index(second)] = second
    BY DEF Buffered
  <2>14. lastOut' # None
    <3>1. seq \in Seqs /\ second \in Seqs
      BY <2>1, WrapAddRange, RingAssumption DEF TypeOK, Indices
    <3> HIDE DEF acc, second, seq
    <3> QED BY <2>12, <3>1, RingAssumption
  <2> HIDE DEF acc, second, seq
  <2> QED BY <2>12, <2>13, <2>14
<1> QED BY <1>1, RingInvariant, OrderedInvariant, PTL DEF Spec, NothingDiscarded

(***************************************************************************)
(* How long a receiver may refuse the sender.  While packets are refused   *)
(* nothing is stored, so next_seq can move no farther than past the last   *)
(* packet of the buffer: to some `end' at most a ring away.  Of the newest *)
(* packets refused, the strays are counted by out_of_window, and the late  *)
(* ones are distinct numbers between end - 3 * Capacity and end, of which  *)
(* `lates' have been used up to the newest arrival.                        *)
(***************************************************************************)
Refused(end, lates) ==
    /\ nextSeq <= end /\ end <= nextSeq + Capacity
    /\ \A i \in Indices : slots[i] < end
    /\ lates > 0 => lates + end <= newest + 3 * Capacity + 1
    /\ deaf <= outOfWindow + lates

Hearing ==
    deaf > 0 => /\ started
                /\ \E end \in Nat, lates \in 0 .. 3 * Capacity : Refused(end, lates)

(* Without a wrap, a late packet is at most two rings behind next_seq. *)
LEMMA LateIsNear ==
    ASSUME NoWrap, TypeOK, Ordered, started, NEW n \in 1 .. MaxSent, IsLate(n)
    PROVE  n < nextSeq /\ nextSeq <= n + 2 * Capacity
<1>1. /\ nextSeq \in Nat /\ nextSeq <= MaxSent + 1
      /\ n \in Nat /\ n <= MaxSent /\ 1 <= n
  BY PlayoutAssumption DEF TypeOK, Seqs, Ordered
<1>2. SeqBefore(n, nextSeq) /\ ~(WrapSub(nextSeq, n) > 2 * Capacity)
  BY DEF IsLate, IsRestart, Anchor
<1>3. n < nextSeq
  BY <1>1, <1>2, RingAssumption, PlayoutAssumption DEF SeqBefore, WrapSub, NoWrap
<1> QED BY <1>1, <1>2, <1>3, RingAssumption DEF WrapSub

LEMMA RoomGrows ==
    ASSUME NEW c \in Nat, NEW lates \in Nat, NEW end \in Nat,
           NEW old \in Nat, NEW new \in Nat, old <= new,
           lates > 0 => lates + end <= old + 3 * c + 1
    PROVE  lates > 0 => lates + end <= new + 3 * c + 1
OBVIOUS

LEMMA HearingOnPacket ==
    ASSUME NoWrap, RingInv, Ordered, Hearing, NEW n \in 1 .. MaxSent, OnPacket(n)
    PROVE  Hearing'
<1>1. SeqOf(n) = n /\ TypeOK
  BY OrderedOnPacket DEF RingInv
<1>2. /\ nextSeq \in Nat /\ newest \in Nat /\ deaf \in Nat /\ outOfWindow \in Nat
      /\ n \in Nat /\ 1 <= n /\ Capacity \in Nat
      /\ slots \in [Indices -> Seqs]
  BY <1>1, RingAssumption, PlayoutAssumption DEF TypeOK, Seqs
<1>3. newest' = IF n > newest THEN n ELSE newest
  BY DEF OnPacket, NoteHearing
<1>4. CASE ~IsLate(n) /\ ~IsStray(n)
  BY <1>1, <1>4 DEF OnPacket, NoteHearing, Hearing
<1>5. CASE IsLate(n) \/ IsStray(n)
  <2>1. started
    BY <1>1, <1>2, <1>5, RingAssumption
       DEF IsLate, IsStray, IsAhead, Anchor, SeqBefore, WrapSub
  <2>2. DropLate(n) \/ DropStray(n)
    <3>1. ~IsReset(n) /\ ~IsStored(n)
      BY <1>5 DEF IsReset, IsStored, IsLate, IsStray, IsAhead, IsRestart, IsResync
    <3> QED BY <1>1, <3>1 DEF OnPacket, ResetTo, Store
  <2>3. slots' = slots /\ nextSeq' = nextSeq /\ started'
    BY <2>1, <2>2 DEF DropLate, DropStray
  <2>4. deaf' = IF n > newest THEN deaf + 1 ELSE deaf
    BY <1>1, <1>5 DEF OnPacket, NoteHearing
  <2>5. PICK end \in Nat, lates \in 0 .. 3 * Capacity : Refused(end, lates)
    <3>1. CASE deaf > 0
      BY <3>1 DEF Hearing
    <3>2. CASE deaf = 0
      <4>1. \A i \in Indices : slots[i] < nextSeq + Capacity
        <5>1. ASSUME NEW i \in Indices, slots[i] # 0
              PROVE  slots[i] < nextSeq + Capacity
          <6>1. slots[i] \in Nat /\ slots[i] < SeqMod /\ WrapSub(slots[i], nextSeq) < Capacity
            BY <1>2, <5>1, RingAssumption DEF RingInv, WindowSound, Seqs
          <6> QED BY <1>2, <6>1, RingAssumption DEF WrapSub
        <5>2. 0 < nextSeq + Capacity
          BY <1>2, RingAssumption
        <5> QED BY <5>1, <5>2
      <4>2. Refused(nextSeq + Capacity, 0)
        BY <1>2, <3>2, <4>1 DEF Refused
      <4> QED BY <1>2, <4>2
    <3> QED BY <1>2, <3>1, <3>2
  <2>6. CASE DropStray(n)
    <3>1. outOfWindow' = outOfWindow + 1
      BY <2>6 DEF DropStray
    <3>2. newest' \in Nat /\ newest <= newest' /\ deaf' <= deaf + 1
      BY <1>2, <1>3, <2>4
    <3>3. lates > 0 => lates + end <= newest' + 3 * Capacity + 1
      <4>1. lates > 0 => lates + end <= newest + 3 * Capacity + 1
        BY <2>5 DEF Refused
      <4>2. lates \in Nat /\ end \in Nat
        BY <1>2
      <4> QED BY <1>2, <3>2, <4>1, <4>2, RoomGrows
    <3>4. deaf' <= outOfWindow' + lates
      BY <1>2, <2>4, <2>5, <3>1 DEF Refused
    <3>5. Refused(end, lates)'
      BY <2>3, <2>5, <3>3, <3>4 DEF Refused
    <3> QED BY <2>3, <2>5, <3>5 DEF Hearing
  <2>7. CASE DropLate(n)
    <3>1. outOfWindow' = outOfWindow
      BY <2>7 DEF DropLate
    <3>2. n < nextSeq /\ nextSeq <= n + 2 * Capacity
      BY <1>1, <2>1, <2>7, LateIsNear DEF DropLate
    <3>3. CASE n > newest
      <4>1. newest' = n /\ deaf' = deaf + 1
        BY <1>3, <2>4, <3>3
      <4>2. lates + 1 \in 0 .. 3 * Capacity /\ (lates + 1) + end <= n + 3 * Capacity + 1
        BY <1>2, <2>5, <3>2, <3>3 DEF Refused
      <4>3. Refused(end, lates + 1)'
        BY <1>2, <2>3, <2>5, <3>1, <4>1, <4>2 DEF Refused
      <4> QED BY <2>3, <4>2, <4>3 DEF Hearing
    <3>4. CASE ~(n > newest)
      <4>1. newest' = newest /\ deaf' = deaf
        BY <1>3, <2>4, <3>4
      <4>2. Refused(end, lates)'
        BY <2>3, <2>5, <3>1, <4>1 DEF Refused
      <4> QED BY <2>3, <2>5, <4>2 DEF Hearing
    <3> QED BY <3>3, <3>4
  <2> QED BY <2>2, <2>6, <2>7
<1> QED BY <1>4, <1>5

(* Playing and concealing take next_seq past packets of the buffer only. *)
LEMMA HearingRender ==
    ASSUME NoWrap, RingInv, Ordered, Hearing, Render
    PROVE  Hearing'
<1>1. TypeOK /\ started
  BY DEF RingInv, Render
<1>2. /\ nextSeq \in Nat /\ Capacity \in Nat /\ 0 < Capacity
      /\ slots \in [Indices -> Seqs] /\ deaf \in Nat
  BY <1>1, RingAssumption DEF TypeOK, Seqs
<1>3. CASE Expand \/ GoIdle \/ KeepBuffering
  BY <1>3 DEF Expand, GoIdle, KeepBuffering, ringVars, ghostVars, Hearing, Refused
<1>4. SUFFICES ASSUME deaf > 0, \/ ConcealLoss
                                \/ \E m \in Indices, h \in Seq(0 .. Capacity), q \in BOOLEAN :
                                      PlayPacket(WrapAdd(nextSeq, m), h, q)
               PROVE  Hearing'
  <2>1. CASE ~(deaf > 0)
    <3>1. deaf' = deaf
      BY <1>1, RenderStart DEF ConcealLoss, PlayPacket, Expand, GoIdle, KeepBuffering, ghostVars
    <3> QED BY <2>1, <3>1 DEF Hearing
  <2> QED BY <1>1, <1>3, <1>4, <2>1, RenderStart
<1>5. PICK end \in Nat, lates \in 0 .. 3 * Capacity : Refused(end, lates)
  BY <1>4 DEF Hearing
<1>6. CASE ConcealLoss
  <2>1. PICK off \in Indices \ {0} : Buffered(WrapAdd(nextSeq, off))
    BY <1>6 DEF ConcealLoss, HasFuture
  <2>2. off \in Nat /\ 1 <= off /\ off < Capacity /\ nextSeq <= MaxSent + 1
    BY RingAssumption DEF Ordered, Indices
  <2>3. WrapAdd(nextSeq, off) = nextSeq + off
    BY <1>2, <2>2, RingAssumption, PlayoutAssumption DEF WrapAdd, NoWrap
  <2>4. nextSeq + off < end
    <3>1. Index(nextSeq + off) \in Indices
      BY <1>2, <2>2, IndexRange
    <3> QED BY <1>5, <2>1, <2>3, <3>1 DEF Buffered, Refused
  <2>5. nextSeq' = nextSeq + 1
    BY <1>1, <1>6, OrderedConceal
  <2>6. nextSeq' <= end /\ end <= nextSeq' + Capacity
    BY <1>2, <1>5, <2>2, <2>4, <2>5 DEF Refused
  <2>7. /\ started' = started /\ outOfWindow' = outOfWindow
        /\ newest' = newest /\ deaf' = deaf
        /\ slots' = [slots EXCEPT ![Index(nextSeq)] = 0]
    BY <1>6 DEF ConcealLoss, ghostVars
  <2>8. \A i \in Indices : slots'[i] < end
    BY <1>2, <1>5, <2>2, <2>4, <2>7 DEF Refused
  <2>9. Refused(end, lates)'
    BY <1>5, <2>6, <2>7, <2>8 DEF Refused
  <2> QED BY <1>1, <1>5, <2>7, <2>9 DEF Hearing
<1>7. ASSUME NEW m \in Indices, NEW h, NEW q, PlayPacket(WrapAdd(nextSeq, m), h, q)
      PROVE  Hearing'
  <2>1. m \in Nat
    BY DEF Indices
  <2>2. slots[Index(nextSeq + m)] = nextSeq + m
    BY <1>1, <1>7, OrderedPlay DEF PlayPacket
  <2>3. nextSeq + m < end
    <3>1. Index(nextSeq + m) \in Indices
      BY <1>2, <2>1, IndexRange
    <3> QED BY <1>5, <2>2, <3>1 DEF Refused
  <2>4. nextSeq' = lastOut'[2] + 1
    BY <1>1, <1>7, OrderedPlay
  <2>5. lastOut'[2] = nextSeq + m \/ lastOut'[2] = nextSeq + m + 1
    BY <1>1, <1>7, OrderedPlay
  <2>6. lastOut'[2] < end
    <3>1. CASE lastOut'[2] = nextSeq + m
      BY <2>3, <3>1
    <3>2. CASE lastOut'[2] # nextSeq + m
      <4>1. /\ lastOut'[2] = nextSeq + m + 1
            /\ slots[Index(nextSeq + m + 1)] = nextSeq + m + 1
        BY <1>1, <1>7, <3>2, OrderedPlay
      <4>2. Index(nextSeq + m + 1) \in Indices
        BY <1>2, <2>1, IndexRange
      <4> QED BY <1>5, <4>1, <4>2 DEF Refused
    <3> QED BY <3>1, <3>2
  <2>7. nextSeq' <= end /\ end <= nextSeq' + Capacity
    BY <1>2, <1>5, <2>1, <2>4, <2>5, <2>6 DEF Refused
  <2>8. /\ started' = started /\ outOfWindow' = outOfWindow
        /\ newest' = newest /\ deaf' = deaf
    BY <1>7 DEF PlayPacket
  <2>9. \A i \in Indices : slots'[i] < end
    <3>1. \A i \in Indices : slots'[i] = 0 \/ slots'[i] = slots[i]
      BY <1>7 DEF PlayPacket
    <3> QED BY <1>2, <1>5, <2>1, <2>3, <3>1 DEF Refused
  <2>10. Refused(end, lates)'
    BY <1>5, <2>7, <2>8, <2>9 DEF Refused
  <2> QED BY <1>1, <1>5, <2>8, <2>10 DEF Hearing
<1> QED BY <1>4, <1>6, <1>7

(* However often the sender restarts and whatever the network loses,       *)
(* delays or repeats, the receiver hears it again before it has refused    *)
(* three rings and ResyncAfter - 1 of its new packets (push).              *)
THEOREM DeafnessIsBounded == Spec => []DeafnessBounded
<1>1. Init => (NoWrap => Hearing)
  BY DEF Init, Hearing
<1>2. RingInv /\ (NoWrap => Ordered) /\ (NoWrap => Hearing) /\ [Next]_vars
        => (NoWrap => Hearing)'
  <2> SUFFICES ASSUME RingInv, NoWrap, Ordered, Hearing, [Next]_vars PROVE Hearing'
    OBVIOUS
  <2>1. CASE UNCHANGED <<ringVars, newest, deaf>>
    BY <2>1 DEF Hearing, Refused, ringVars
  <2>2. CASE Send \/ UNCHANGED vars
    BY <2>1, <2>2 DEF Send, vars, ringVars, ghostVars
  <2>3. CASE Restart \/ Prune
    BY <2>3 DEF Restart, Prune, Hearing
  <2>4. ASSUME NEW n \in 1 .. MaxSent, OnPacket(n) PROVE Hearing'
    BY <2>4, HearingOnPacket
  <2>5. CASE Render
    BY <2>5, HearingRender
  <2> QED BY <2>2, <2>3, <2>4, <2>5 DEF Next
<1>3. RingInv /\ (NoWrap => Hearing) => DeafnessBounded
  <2> SUFFICES ASSUME RingInv, NoWrap, Hearing PROVE deaf <= 3 * Capacity + ResyncAfter - 1
    BY DEF DeafnessBounded
  <2>1. /\ deaf \in Nat /\ outOfWindow \in 0 .. ResyncAfter - 1
        /\ Capacity \in Nat /\ ResyncAfter \in Nat \ {0}
    BY RingAssumption DEF RingInv, TypeOK
  <2>2. CASE deaf > 0
    <3>1. PICK end \in Nat, lates \in 0 .. 3 * Capacity : Refused(end, lates)
      BY <2>2 DEF Hearing
    <3> QED BY <2>1, <3>1 DEF Refused
  <2> QED BY <2>1, <2>2
<1> QED BY <1>1, <1>2, <1>3, RingInvariant, OrderedInvariant, PTL DEF Spec
=============================================================================
