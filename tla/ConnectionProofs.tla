-------------------------- MODULE ConnectionProofs --------------------------
(***************************************************************************)
(* Proofs about a client's connection.  Of the byte stream (Frames), for   *)
(* every prefix, frame limit, read buffer and pending limit: the reader    *)
(* never loses its place in the stream, never looks beyond it, and its     *)
(* buffer never reaches the limit that would end the connection.  Of the   *)
(* session above it (ClientSession), for every number of connections, size *)
(* of the queues, set of channels and number of commands and faults: the   *)
(* client and the server agree on the channel once nothing is on its way.  *)
(***************************************************************************)
EXTENDS MCConnection, FiniteSetTheorems, SequenceTheorems, TLAPS

(***************************************************************************)
(* The byte stream.                                                        *)
(***************************************************************************)

(* Each frame ends its prefix and its payload after the previous one. *)
Spaced ==
    \A i \in 1..Len(ends) :
        ends[i] = (IF i = 1 THEN 0 ELSE ends[i - 1]) + Prefix + frames[i].len

(* The types of all but what was delivered, which no step reads. *)
Offsets ==
    /\ frames \in Seq(FrameRecords) /\ ends \in Seq(Nat)
    /\ Len(ends) = Len(frames)
    /\ written \in Nat /\ read \in Nat /\ pending \in Nat
    /\ read <= written /\ written <= StreamEnd
    /\ pos \in 1..(Len(frames) + 1)

(* The reader's place alone is not inductive: that a frame is cut where it *)
(* ends needs the ends of all frames, and that the reader stays behind the *)
(* last one needs the types.                                               *)
Place == Offsets /\ Spaced /\ Aligned

(* The reader's buffer ends where the sender's last complete or partial    *)
(* frame does: behind the last frame there is nothing to cut.              *)
LEMMA BeyondIsEmpty ==
  ASSUME Place, pos > Len(frames)
  PROVE  pending = 0
  <1>1. pos = Len(frames) + 1 /\ Len(frames) \in Nat /\ Len(ends) = Len(frames)
    BY DEF Place, Offsets
  <1>2. CASE pos = 1
    <2>1. ends = <<>>
      BY <1>1, <1>2 DEF Place, Offsets
    <2> QED
      BY <1>2, <2>1 DEF Place, Offsets, Aligned, StreamEnd
  <1>3. CASE pos # 1
    <2>1. ends # <<>> /\ StreamEnd = ends[pos - 1] /\ ends[pos - 1] \in Nat
      BY <1>1, <1>3 DEF Place, Offsets, StreamEnd
    <2> QED
      BY <1>3, <2>1 DEF Place, Offsets, Aligned
  <1> QED
    BY <1>2, <1>3

(* A frame that was sent is one of the records, and its length a number. *)
LEMMA SentLength ==
  ASSUME Place, NEW i \in 1..Len(frames)
  PROVE  frames[i] \in FrameRecords /\ frames[i].len \in Nat
  <1>1. frames[i] \in FrameRecords
    BY DEF Place, Offsets
  <1>2. frames[i].len \in Lengths
    BY <1>1 DEF FrameRecords
  <1> QED
    BY <1>1, <1>2, FramesAssumption

(* Encoding appends a frame and leaves every earlier end where it was. *)
LEMMA EncodeStep ==
  ASSUME Place, NEW n \in Lengths, NEW ok \in BOOLEAN, EncodeFrame(n, ok)
  PROVE  Place'
  <1> DEFINE f == [len |-> n, ok |-> ok]
             e == StreamEnd + Prefix + n
  <1>1. f \in FrameRecords /\ n \in Nat
    BY FramesAssumption DEF FrameRecords
  <1>2. StreamEnd \in Nat
    BY DEF Place, Offsets, StreamEnd
  <1>3. e \in Nat /\ StreamEnd <= e
    BY <1>1, <1>2, FramesAssumption
  <1>4. frames' = Append(frames, f) /\ ends' = Append(ends, e)
    BY DEF EncodeFrame
  <1>5. /\ frames' \in Seq(FrameRecords) /\ ends' \in Seq(Nat)
        /\ Len(frames') = Len(frames) + 1 /\ Len(ends') = Len(frames')
    BY <1>1, <1>3, <1>4 DEF Place, Offsets
  <1>6. StreamEnd' = e
    BY <1>3, <1>4, <1>5 DEF Place, Offsets, StreamEnd
  <1>7. Offsets'
    BY <1>3, <1>5, <1>6 DEF Place, Offsets, EncodeFrame
  <1>8. Spaced'
    <2> SUFFICES ASSUME NEW i \in 1..Len(ends')
                 PROVE  ends'[i] = (IF i = 1 THEN 0 ELSE ends'[i - 1])
                                       + Prefix + frames'[i].len
      BY DEF Spaced
    <2>1. CASE i \in 1..Len(ends)
      <3>1. /\ ends'[i] = ends[i] /\ frames'[i] = frames[i]
            /\ i # 1 => ends'[i - 1] = ends[i - 1]
        BY <2>1, <1>4 DEF Place, Offsets
      <3> QED
        BY <2>1, <3>1 DEF Place, Spaced
    <2>2. CASE i = Len(ends) + 1
      <3>1. ends'[i] = e /\ frames'[i] = f
        BY <2>2, <1>4, <1>5 DEF Place, Offsets
      <3>2. i # 1 => ends'[i - 1] = ends[i - 1]
        BY <2>2, <1>4 DEF Place, Offsets
      <3>3. StreamEnd = IF i = 1 THEN 0 ELSE ends'[i - 1]
        BY <2>2, <3>2 DEF Place, Offsets, StreamEnd
      <3> QED
        BY <3>1, <3>3
    <2> QED
      BY <2>1, <2>2, <1>5 DEF Place, Offsets
  <1>9. Aligned'
    <2>1. pos # 1 => pos - 1 \in 1..Len(ends) /\ ends'[pos - 1] = ends[pos - 1]
      BY <1>4 DEF Place, Offsets
    <2> QED
      BY <2>1 DEF Place, Aligned, EncodeFrame
  <1> QED
    BY <1>7, <1>8, <1>9 DEF Place

(* The other steps leave the frames and their ends alone. *)
LEMMA SpacedKept ==
  ASSUME Place, UNCHANGED <<frames, ends>>
  PROVE  Spaced' /\ StreamEnd' = StreamEnd
  BY DEF Place, Spaced, StreamEnd

(* Bytes taken off the front of the buffer move its start by as many. *)
LEMMA FrontMoves ==
  ASSUME NEW total \in Nat, NEW buf \in Nat, NEW start \in Nat, NEW cut \in Nat,
         NEW end \in Nat, total = buf + start, end = start + cut
  PROVE  total = (buf - cut) + end
  OBVIOUS

(* Cutting a frame moves the place by exactly the bytes it removes. *)
LEMMA ExtractStep ==
  ASSUME Place, ExtractOne
  PROVE  Place'
  <1>1. pos \in 1..Len(frames) /\ Len(ends) = Len(frames)
    BY BeyondIsEmpty, FramesAssumption DEF ExtractOne, HasPrefix, Place, Offsets
  <1>2. frames[pos].len \in Nat /\ frames[pos] \in FrameRecords
    BY <1>1, SentLength
  <1>3. ends[pos] = (IF pos = 1 THEN 0 ELSE ends[pos - 1]) + Prefix + frames[pos].len
    BY <1>1 DEF Place, Spaced
  <1>4. /\ pending' = pending - (Prefix + frames[pos].len)
        /\ pending >= Prefix + frames[pos].len
        /\ pos' = pos + 1
        /\ UNCHANGED <<frames, ends, written, read>>
    BY DEF ExtractOne, Complete, senderVars
  <1>5. pending' \in Nat /\ pos' \in 1..(Len(frames) + 1)
    BY <1>1, <1>2, <1>4, FramesAssumption DEF Place, Offsets
  <1>6. Aligned'
    <2> DEFINE start == IF pos = 1 THEN 0 ELSE ends[pos - 1]
    <2>1. start \in Nat /\ read = pending + start
      BY <1>1, SMTT(30) DEF Place, Offsets, Aligned
    <2>2. pos' # 1 /\ ends'[pos' - 1] = ends[pos]
      BY <1>1, <1>4
    <2>3. Prefix + frames[pos].len \in Nat /\ read \in Nat /\ pending \in Nat
      BY <1>2, FramesAssumption DEF Place, Offsets
    <2>4. ends[pos] \in Nat
      BY <1>1 DEF Place, Offsets
    <2>5. ends[pos] = start + (Prefix + frames[pos].len)
      BY <1>2, <1>3, <2>1, FramesAssumption
    <2>6. read = (pending - (Prefix + frames[pos].len)) + ends[pos]
      <3> HIDE DEF start
      <3> QED
        BY <2>1, <2>3, <2>4, <2>5, FrontMoves
    <2> QED
      BY <1>4, <2>2, <2>6 DEF Aligned
  <1>7. StreamEnd' = StreamEnd /\ Spaced'
    BY <1>4, SpacedKept
  <1>8. Offsets'
    BY <1>4, <1>5, <1>7 DEF Offsets, Place
  <1> QED
    BY <1>6, <1>7, <1>8 DEF Place

(* A step that touches neither the stream nor the place keeps both. *)
LEMMA PlaceKept ==
  ASSUME Place, UNCHANGED <<frames, ends, written, read, pending, pos>>
  PROVE  Place'
  <1>1. StreamEnd' = StreamEnd /\ Spaced'
    BY SpacedKept
  <1> QED
    BY <1>1 DEF Place, Offsets, Aligned

(* Every step keeps the reader at its place. *)
LEMMA PlaceStep == Place /\ [Next]_vars => Place'
  <1> SUFFICES ASSUME Place, [Next]_vars
               PROVE  Place'
    OBVIOUS
  <1>1. ASSUME NEW n \in 1..(Prefix + MaxFrame + 1), WriteSome(n)
        PROVE  Place'
    BY <1>1, SpacedKept, FramesAssumption, SMTT(30)
       DEF WriteSome, Place, Offsets, Aligned, StreamEnd
  <1>2. ASSUME NEW n \in 1..ReadBuf, Read(n)
        PROVE  Place'
    <2>1. StreamEnd' = StreamEnd /\ Spaced'
      BY <1>2, SpacedKept DEF Read, senderVars
    <2>2. /\ read' = read + n /\ pending' = pending + n /\ read + n <= written
          /\ UNCHANGED <<frames, ends, written, pos>>
      BY <1>2 DEF Read, senderVars
    <2>3. Offsets'
      BY <2>1, <2>2, FramesAssumption DEF Place, Offsets
    <2>4. Aligned'
      <3> DEFINE start == IF pos = 1 THEN 0 ELSE ends[pos - 1]
      <3>1. start \in Nat /\ read = pending + start
        BY SMTT(30) DEF Place, Offsets, Aligned
      <3>2. read + n = (pending + n) + start
        <4> HIDE DEF start
        <4> QED
          BY <3>1, FramesAssumption DEF Place, Offsets
      <3> QED
        BY <2>2, <3>2 DEF Aligned
    <2> QED
      BY <2>1, <2>3, <2>4 DEF Place
  <1>3. CASE WriterGone \/ ReadEof \/ IdleTimeout \/ TooLarge \/ ExtractDone \/ HandleOne
    BY <1>3, PlaceKept
       DEF WriterGone, ReadEof, IdleTimeout, TooLarge, ExtractDone, HandleOne, senderVars
  <1>4. CASE UNCHANGED vars
    BY <1>4, PlaceKept DEF vars, senderVars
  <1> QED
    BY <1>1, <1>2, <1>3, <1>4, EncodeStep, ExtractStep DEF Next, SomeRead, SomeWrite

(* At the start nothing was sent. *)
LEMMA PlaceInit == Init => Place
  <1> SUFFICES ASSUME Init
               PROVE  Place
    OBVIOUS
  <1>1. frames = <<>> /\ ends = <<>> /\ Len(frames) = 0 /\ Len(ends) = 0 /\ pos = 1
    BY DEF Init
  <1>2. frames \in Seq(FrameRecords) /\ ends \in Seq(Nat)
    BY <1>1
  <1>3. Offsets
    BY <1>1, <1>2 DEF Init, Offsets, StreamEnd
  <1>4. Spaced /\ Aligned
    BY <1>1 DEF Init, Spaced, Aligned
  <1> QED
    BY <1>3, <1>4 DEF Place

(* The reader never loses its place. *)
LEMMA PlaceHolds == Spec => []Place
  BY PlaceInit, PlaceStep, PTL DEF Spec

(* Cutting never loses its place, however the stream is split into reads:  *)
(* the pending buffer is the stream from the end of the last frame cut.    *)
THEOREM ReaderAligned == Spec => []Aligned
  <1>1. Place => Aligned
    BY DEF Place
  <1> QED
    BY <1>1, PlaceHolds, PTL

(* The reader cuts only frames that were sent. *)
THEOREM ReaderInStream == Spec => []InStream
  <1>1. Place => InStream
    <2> SUFFICES ASSUME Place, HasPrefix
                 PROVE  pos <= Len(frames)
      BY DEF InStream
    <2> QED
      BY BeyondIsEmpty, FramesAssumption DEF HasPrefix, Place, Offsets
  <1> QED
    BY <1>1, PlaceHolds, PTL

(* The bound of the buffer follows every step. *)
LEMMA OverflowStep == Place /\ NoOverflow /\ [Next]_vars => NoOverflow'
  <1> SUFFICES ASSUME Place, NoOverflow, [Next]_vars
               PROVE  NoOverflow'
    OBVIOUS
  <1>1. ASSUME NEW n \in 1..ReadBuf, Read(n)
        PROVE  NoOverflow'
    BY <1>1, FramesAssumption DEF Read, AfterRead, NoOverflow, Place, Offsets
  <1>2. CASE ExtractDone
    <2>1. CASE ~HasPrefix
      BY <1>2, <2>1, FramesAssumption DEF ExtractDone, HasPrefix, NoOverflow, Place, Offsets
    <2>2. CASE HasPrefix
      <3>1. pos \in 1..Len(frames)
        BY <2>2, BeyondIsEmpty, FramesAssumption DEF HasPrefix, Place, Offsets
      <3>2. frames[pos].len \in Nat
        BY <3>1, SentLength
      <3>3. frames[pos].len <= MaxFrame /\ ~(pending >= Prefix + frames[pos].len)
        BY <1>2, <2>2 DEF ExtractDone, NothingMore, Complete
      <3>4. pending < Prefix + MaxFrame
        BY <3>2, <3>3, FramesAssumption, SMTT(30) DEF Place, Offsets
      <3> QED
        BY <1>2, <3>4 DEF ExtractDone, NoOverflow
    <2> QED
      BY <2>1, <2>2
  <1>3. CASE UNCHANGED <<pending, where>>
    BY <1>3 DEF NoOverflow
  <1>4. ASSUME NEW n \in Lengths, NEW ok \in BOOLEAN, EncodeFrame(n, ok)
        PROVE  NoOverflow'
    BY <1>3, <1>4 DEF EncodeFrame
  <1>5. ASSUME NEW n \in 1..(Prefix + MaxFrame + 1), WriteSome(n)
        PROVE  NoOverflow'
    BY <1>3, <1>5 DEF WriteSome
  <1>6. CASE WriterGone \/ ReadEof \/ IdleTimeout \/ TooLarge \/ ExtractOne \/ HandleOne
    BY <1>6 DEF WriterGone, ReadEof, IdleTimeout, TooLarge, ExtractOne, HandleOne, NoOverflow
  <1>7. CASE UNCHANGED vars
    BY <1>3, <1>7 DEF vars
  <1> QED
    BY <1>1, <1>2, <1>4, <1>5, <1>6, <1>7 DEF Next, SomeRead, SomeWrite

(* The buffer never reaches the limit that ends a connection, whatever the *)
(* peer sends.                                                             *)
THEOREM BufferBounded == Spec => []NoOverflow
  <1>1. Init => NoOverflow
    BY FramesAssumption DEF Init, NoOverflow
  <1> QED
    BY <1>1, PlaceHolds, OverflowStep, PTL DEF Spec

(***************************************************************************)
(* What is delivered.  The frames cut are the ones before pos; the last of *)
(* them, in order, are still in the batch, the others were looked at.  A   *)
(* frame too large throws the batch away, and nothing is read after it.    *)
(***************************************************************************)
Increasing == \A i, j \in 1..Len(ends) : i < j => ends[i] < ends[j]

LookedAt == (pos - 1) - Len(batch)

Batched ==
    /\ batch \in Seq(Nat)
    /\ Len(batch) <= pos - 1
    /\ \A i \in 1..Len(batch) : batch[i] = LookedAt + i
    /\ where = "read" => batch = <<>>
    /\ where = "handle" => batch # <<>>

\* The next frame has not arrived completely.
Waiting == where \in {"read", "handle"} /\ pos <= Len(ends) => read < ends[pos]

Looked ==
    /\ delivered \in Seq(Nat)
    /\ \A i \in 1..Len(delivered) :
           delivered[i] \in 1..LookedAt /\ frames[delivered[i]].ok
    /\ \A i, j \in 1..Len(delivered) : i < j => delivered[i] < delivered[j]
    /\ where # "toolarge" =>
           \A k \in 1..LookedAt :
               frames[k].ok => \E i \in 1..Len(delivered) : delivered[i] = k

Exact == Increasing /\ Batched /\ Waiting /\ Looked

(* Encoding touches only what lies beyond everything cut or read. *)
LEMMA ExactEncode ==
  ASSUME Place, Exact, NEW n \in Lengths, NEW ok \in BOOLEAN, EncodeFrame(n, ok)
  PROVE  Exact'
  <1> DEFINE f == [len |-> n, ok |-> ok]
             e == StreamEnd + Prefix + n
  <1>1. n \in Nat /\ StreamEnd \in Nat /\ Prefix \in Nat /\ Prefix > 0
    BY FramesAssumption DEF Place, Offsets, StreamEnd
  <1>2. e \in Nat /\ StreamEnd < e
    BY <1>1
  <1>3. /\ frames' = Append(frames, f) /\ ends' = Append(ends, e)
        /\ UNCHANGED <<read, batch, pos, where, delivered>>
    BY DEF EncodeFrame
  <1> HIDE DEF f, e
  <1>4. /\ frames \in Seq(FrameRecords) /\ ends \in Seq(Nat) /\ Len(ends) = Len(frames)
        /\ Len(frames) \in Nat /\ read \in Nat /\ written \in Nat
        /\ read <= written /\ written <= StreamEnd
        /\ pos \in 1..(Len(frames) + 1)
    BY DEF Place, Offsets
  <1>5. /\ Len(frames') = Len(frames) + 1 /\ Len(ends') = Len(ends) + 1
        /\ \A i \in 1..Len(ends) : ends'[i] = ends[i] /\ frames'[i] = frames[i]
        /\ ends'[Len(ends) + 1] = e
    BY <1>2, <1>3, <1>4
  <1>6. \A i \in 1..Len(ends) : ends[i] \in Nat /\ ends[i] <= StreamEnd
    <2> SUFFICES ASSUME NEW i \in 1..Len(ends) PROVE ends[i] \in Nat /\ ends[i] <= StreamEnd
      OBVIOUS
    <2>1. StreamEnd = ends[Len(ends)] /\ ends[i] \in Nat
      BY <1>4 DEF StreamEnd
    <2>2. CASE i = Len(ends)
      BY <1>1, <2>1, <2>2
    <2>3. CASE i < Len(ends)
      BY <1>1, <1>4, <2>1, <2>3, SMTT(30) DEF Exact, Increasing
    <2> QED
      BY <1>4, <2>2, <2>3
  <1>7. Increasing'
    <2> SUFFICES ASSUME NEW i \in 1..Len(ends'), NEW j \in 1..Len(ends'), i < j
                 PROVE  ends'[i] < ends'[j]
      BY DEF Increasing
    <2>1. i \in 1..Len(ends)
      BY <1>4, <1>5
    <2>2. CASE j \in 1..Len(ends)
      BY <1>5, <2>1, <2>2 DEF Exact, Increasing
    <2>3. CASE j = Len(ends) + 1
      BY <1>1, <1>2, <1>5, <1>6, <2>1, <2>3
    <2>4. Len(ends) \in Nat /\ j \in 1..(Len(ends) + 1)
      BY <1>4, <1>5
    <2>5. j \in 1..Len(ends) \/ j = Len(ends) + 1
      BY <2>4
    <2> QED
      BY <2>2, <2>3, <2>5
  <1>8. LookedAt' = LookedAt /\ Batched'
    BY <1>3 DEF Exact, Batched, LookedAt
  <1>9. Waiting'
    <2>1. CASE pos <= Len(ends)
      BY <1>3, <1>4, <1>5, <2>1 DEF Exact, Waiting
    <2>2. CASE pos = Len(ends) + 1
      BY <1>1, <1>2, <1>3, <1>4, <1>5, <2>2 DEF Waiting
    <2> QED
      BY <1>4, <2>1, <2>2
  <1>10. Looked'
    <2>1. 1..LookedAt \subseteq 1..Len(ends)
      BY <1>4 DEF Exact, Batched, LookedAt
    <2>2. \A k \in 1..LookedAt : frames'[k] = frames[k]
      BY <1>5, <2>1
    <2> QED
      BY <1>3, <1>8, <2>2 DEF Exact, Looked
  <1> QED
    BY <1>7, <1>8, <1>9, <1>10 DEF Exact

(* A cut frame joins the end of the batch. *)
LEMMA ExactExtract ==
  ASSUME Place, Exact, ExtractOne
  PROVE  Exact'
  <1>1. /\ batch' = Append(batch, pos) /\ pos' = pos + 1 /\ where = "extract"
        /\ UNCHANGED <<frames, ends, read, where, delivered>>
    BY DEF ExtractOne, senderVars
  <1>2. pos \in Nat /\ 1 <= pos /\ batch \in Seq(Nat) /\ Len(batch) \in Nat
        /\ Len(batch) <= pos - 1
    BY DEF Place, Offsets, Exact, Batched
  <1>3. /\ batch' \in Seq(Nat) /\ Len(batch') = Len(batch) + 1
        /\ \A i \in 1..Len(batch) : batch'[i] = batch[i]
        /\ batch'[Len(batch) + 1] = pos
    BY <1>1, <1>2
  <1>4. LookedAt' = LookedAt /\ pos = LookedAt + (Len(batch) + 1)
    BY <1>1, <1>2, <1>3 DEF LookedAt
  <1>5. ASSUME NEW i \in 1..Len(batch')
        PROVE  batch'[i] = LookedAt' + i
    <2>1. CASE i \in 1..Len(batch)
      BY <1>3, <1>4, <2>1 DEF Exact, Batched
    <2>2. CASE i = Len(batch) + 1
      BY <1>3, <1>4, <2>2
    <2> QED
      BY <1>2, <1>3, <2>1, <2>2
  <1>6. Batched'
    BY <1>1, <1>2, <1>3, <1>5 DEF Batched
  <1> QED
    BY <1>1, <1>4, <1>6 DEF Exact, Increasing, Waiting, Looked

(* The frame the loop looks at is the first one not looked at so far. *)
LEMMA ExactHandle ==
  ASSUME Place, Exact, HandleOne
  PROVE  Exact'
  <1> DEFINE k == LookedAt + 1
  <1>1. /\ batch \in Seq(Nat) /\ batch # <<>> /\ Len(batch) \in Nat /\ Len(batch) >= 1
        /\ pos \in Nat /\ Len(batch) <= pos - 1
    <2>1. /\ batch \in Seq(Nat) /\ batch # <<>> /\ pos \in Nat /\ Len(batch) <= pos - 1
      BY DEF HandleOne, Exact, Batched, Place, Offsets
    <2> QED
      BY <2>1
  <1>2. /\ batch' = Tail(batch)
        /\ UNCHANGED <<frames, ends, read, pos>>
        /\ where = "handle" /\ where' = IF batch' = <<>> THEN "read" ELSE "handle"
    BY DEF HandleOne, senderVars
  <1>3. /\ batch' \in Seq(Nat) /\ Len(batch') = Len(batch) - 1
        /\ \A i \in 1..Len(batch') : batch'[i] = batch[i + 1]
        /\ Head(batch) = batch[1]
    BY <1>1, <1>2
  <1>4. LookedAt \in Nat /\ LookedAt' = k
    BY <1>1, <1>2, <1>3 DEF LookedAt
  <1>5. Head(batch) = k
    BY <1>1, <1>3 DEF Exact, Batched
  <1>6. Batched'
    <2>1. \A i \in 1..Len(batch') : batch'[i] = LookedAt' + i
      <3> SUFFICES ASSUME NEW i \in 1..Len(batch') PROVE batch'[i] = LookedAt' + i
        OBVIOUS
      <3>1. i + 1 \in 1..Len(batch) /\ batch'[i] = batch[i + 1]
        BY <1>1, <1>3
      <3>2. batch[i + 1] = LookedAt + (i + 1)
        BY <3>1 DEF Exact, Batched
      <3> QED
        BY <1>4, <3>1, <3>2
    <2> QED
      BY <1>1, <1>2, <1>3, <2>1 DEF Batched
  <1>7. Increasing' /\ Waiting'
    BY <1>2 DEF Exact, Increasing, Waiting
  <1>8. /\ delivered \in Seq(Nat) /\ Len(delivered) \in Nat
        /\ \A i \in 1..Len(delivered) :
               delivered[i] \in 1..LookedAt /\ frames[delivered[i]].ok
        /\ \A i, j \in 1..Len(delivered) : i < j => delivered[i] < delivered[j]
        /\ \A m \in 1..LookedAt :
               frames[m].ok => \E i \in 1..Len(delivered) : delivered[i] = m
    BY <1>2 DEF Exact, Looked
  <1>9. k \in Nat /\ \A m \in 1..k : m = k \/ m \in 1..LookedAt
    BY <1>4
  <1>10. CASE frames[k].ok
    <2>1. delivered' = Append(delivered, k)
      BY <1>5, <1>10 DEF HandleOne, Decodes
    <2>2. /\ delivered' \in Seq(Nat) /\ Len(delivered') = Len(delivered) + 1
          /\ \A i \in 1..Len(delivered) : delivered'[i] = delivered[i]
          /\ delivered'[Len(delivered) + 1] = k
      BY <1>8, <1>9, <2>1
    <2>3. \A i \in 1..Len(delivered') :
              i = Len(delivered) + 1 \/ i \in 1..Len(delivered)
      BY <1>8, <2>2
    <2>4. ASSUME NEW i \in 1..Len(delivered')
          PROVE  delivered'[i] \in 1..k /\ frames[delivered'[i]].ok
      <3>1. CASE i \in 1..Len(delivered)
        <4>1. delivered'[i] = delivered[i] /\ delivered[i] \in 1..LookedAt
              /\ frames[delivered[i]].ok
          BY <1>8, <2>2, <3>1
        <4> QED
          BY <1>4, <4>1
      <3>2. CASE i = Len(delivered) + 1
        BY <1>4, <1>10, <2>2, <3>2
      <3> QED
        BY <2>3, <3>1, <3>2
    <2>5. ASSUME NEW i \in 1..Len(delivered'), NEW j \in 1..Len(delivered'), i < j
          PROVE  delivered'[i] < delivered'[j]
      <3>1. i \in 1..Len(delivered)
        BY <1>8, <2>2, <2>5
      <3>2. CASE j \in 1..Len(delivered)
        BY <1>8, <2>2, <2>5, <3>1, <3>2
      <3>3. CASE j = Len(delivered) + 1
        BY <1>4, <1>8, <2>2, <3>1, <3>3, SMTT(30)
      <3> QED
        BY <2>3, <3>2, <3>3
    <2>6. ASSUME NEW m \in 1..k, frames[m].ok
          PROVE  \E i \in 1..Len(delivered') : delivered'[i] = m
      <3>1. CASE m = k
        BY <1>8, <2>2, <3>1
      <3>2. CASE m \in 1..LookedAt
        <4>1. PICK i \in 1..Len(delivered) : delivered[i] = m
          BY <1>8, <2>6, <3>2
        <4> QED
          BY <1>8, <2>2, <4>1
      <3> QED
        BY <1>9, <3>1, <3>2
    <2>7. Looked'
      BY <1>2, <1>4, <2>2, <2>4, <2>5, <2>6 DEF Looked
    <2> QED
      BY <1>6, <1>7, <2>7 DEF Exact
  <1>11. CASE ~frames[k].ok
    <2>1. delivered' = delivered
      BY <1>5, <1>11 DEF HandleOne, Decodes
    <2>2. Looked'
      <3>1. \A i \in 1..Len(delivered) : delivered[i] \in 1..k
        BY <1>4, <1>8
      <3>2. \A m \in 1..k : frames[m].ok => \E i \in 1..Len(delivered) : delivered[i] = m
        BY <1>8, <1>9, <1>11
      <3> QED
        BY <1>2, <1>4, <1>8, <2>1, <3>1, <3>2 DEF Looked
    <2> QED
      BY <1>6, <1>7, <2>2 DEF Exact
  <1> QED
    BY <1>10, <1>11

(* The loop starts when the rest of the buffer is no whole frame. *)
LEMMA ExactExtractDone ==
  ASSUME Place, Exact, ExtractDone
  PROVE  Exact'
  <1>1. /\ where = "extract" /\ where' = IF batch = <<>> THEN "read" ELSE "handle"
        /\ UNCHANGED <<frames, ends, read, batch, pos, delivered>>
    BY DEF ExtractDone, senderVars
  <1>2. Waiting'
    <2> SUFFICES ASSUME pos <= Len(ends) PROVE read < ends[pos]
      BY <1>1 DEF Waiting
    <2> DEFINE start == IF pos = 1 THEN 0 ELSE ends[pos - 1]
    <2>1. pos \in 1..Len(ends) /\ pos \in 1..Len(frames)
      BY DEF Place, Offsets
    <2>2. frames[pos].len \in Nat
      BY <2>1, SentLength
    <2>3. /\ start \in Nat /\ read = pending + start /\ pending \in Nat
          /\ Prefix \in Nat
      BY <2>1, FramesAssumption, SMTT(30) DEF Place, Offsets, Aligned
    <2>4. ends[pos] = start + Prefix + frames[pos].len
      BY <2>1 DEF Place, Spaced
    <2>5. pending < Prefix + frames[pos].len
      BY <2>2, <2>3 DEF ExtractDone, NothingMore, HasPrefix, Complete
    <2> HIDE DEF start
    <2> QED
      BY <2>2, <2>3, <2>4, <2>5
  <1> QED
    BY <1>1, <1>2 DEF Exact, Increasing, Batched, Looked, LookedAt

LEMMA ExactStep == Place /\ Exact /\ [Next]_vars => Exact'
  <1> SUFFICES ASSUME Place, Exact, [Next]_vars
               PROVE  Exact'
    OBVIOUS
  <1>1. CASE UNCHANGED <<frames, ends, read, batch, pos, where, delivered>>
    BY <1>1 DEF Exact, Increasing, Batched, Waiting, Looked, LookedAt
  <1>2. ASSUME NEW n \in 1..(Prefix + MaxFrame + 1), WriteSome(n)
        PROVE  Exact'
    BY <1>1, <1>2 DEF WriteSome
  <1>3. ASSUME NEW n \in 1..ReadBuf, Read(n)
        PROVE  Exact'
    <2>1. /\ where = "read" /\ where' \in {"overflow", "extract"}
          /\ UNCHANGED <<frames, ends, batch, pos, delivered>>
      BY <1>3 DEF Read, AfterRead, senderVars
    <2> QED
      BY <2>1 DEF Exact, Increasing, Batched, Waiting, Looked, LookedAt
  <1>4. CASE WriterGone \/ UNCHANGED vars
    BY <1>1, <1>4 DEF WriterGone, vars, senderVars
  <1>5. CASE ReadEof \/ IdleTimeout
    <2>1. /\ where = "read" /\ where' \in {"eof", "idle"}
          /\ UNCHANGED <<frames, ends, read, batch, pos, delivered>>
      BY <1>5 DEF ReadEof, IdleTimeout, senderVars
    <2> QED
      BY <2>1 DEF Exact, Increasing, Batched, Waiting, Looked, LookedAt
  <1>6. CASE TooLarge
    <2>1. /\ where' = "toolarge" /\ batch' = <<>>
          /\ UNCHANGED <<frames, ends, read, pos, delivered>>
      BY <1>6 DEF TooLarge, senderVars
    <2>2. /\ LookedAt' = pos - 1 /\ LookedAt <= pos - 1 /\ pos - 1 \in Nat
          /\ LookedAt \in Int
      BY <2>1 DEF LookedAt, Exact, Batched, Place, Offsets
    <2>3. Batched'
      BY <2>1, <2>2 DEF Batched
    <2>4. Looked'
      <3>1. \A i \in 1..Len(delivered) : delivered[i] \in 1..(pos - 1)
        BY <2>2 DEF Exact, Looked
      <3> QED
        BY <2>1, <2>2, <3>1 DEF Exact, Looked
    <2> QED
      BY <2>1, <2>3, <2>4 DEF Exact, Increasing, Waiting
  <1> QED
    BY <1>2, <1>3, <1>4, <1>5, <1>6, ExactEncode, ExactExtract, ExactExtractDone,
       ExactHandle DEF Next, SomeRead, SomeWrite

(* However TCP splits the stream and wherever the writer dies: between two *)
(* reads exactly the complete frames are cut, and the ones that decode are *)
(* delivered once each, in the order they were sent.                       *)
THEOREM FramesDelivered == Spec => []DeliveredExactly
  <1>1. Init => Exact
    <2> SUFFICES ASSUME Init PROVE Exact
      OBVIOUS
    <2>1. /\ frames = <<>> /\ ends = <<>> /\ batch = <<>> /\ delivered = <<>>
          /\ pos = 1 /\ where = "read" /\ read = 0
      BY DEF Init
    <2>2. Len(ends) = 0 /\ Len(batch) = 0 /\ Len(delivered) = 0
          /\ batch \in Seq(Nat) /\ delivered \in Seq(Nat)
      BY <2>1
    <2> QED
      BY <2>1, <2>2 DEF Exact, Increasing, Batched, Waiting, Looked, LookedAt
  <1>2. Place /\ Exact => DeliveredExactly
    <2> SUFFICES ASSUME Place, Exact, where = "read"
                 PROVE  /\ pos = Cardinality({i \in DOMAIN ends : ends[i] <= read}) + 1
                        /\ {delivered[i] : i \in DOMAIN delivered}
                               = {k \in 1..(pos - 1) : Decodes(k)}
                        /\ \A i, j \in DOMAIN delivered : i < j => delivered[i] < delivered[j]
      BY DEF DeliveredExactly
    <2>1. /\ pos \in 1..(Len(ends) + 1) /\ Len(ends) \in Nat /\ DOMAIN ends = 1..Len(ends)
          /\ ends \in Seq(Nat) /\ read \in Nat /\ pending \in Nat
          /\ read = pending + (IF pos = 1 THEN 0 ELSE ends[pos - 1])
      BY DEF Place, Offsets, Aligned
    <2>2. ASSUME NEW i \in 1..Len(ends)
          PROVE  ends[i] <= read <=> i \in 1..(pos - 1)
      <3>1. ends[i] \in Nat
        BY <2>1
      <3>2. CASE i <= pos - 1
        <4>1. pos # 1 /\ pos - 1 \in 1..Len(ends) /\ ends[pos - 1] \in Nat
          BY <2>1, <3>2
        <4>2. ends[i] <= ends[pos - 1]
          <5>1. CASE i = pos - 1
            BY <3>1, <5>1
          <5>2. CASE i < pos - 1
            BY <3>1, <4>1, <5>2 DEF Exact, Increasing
          <5> QED
            BY <2>1, <3>2, <5>1, <5>2
        <4> QED
          BY <2>1, <3>1, <3>2, <4>1, <4>2
      <3>3. CASE pos <= i
        <4>1. pos \in 1..Len(ends) /\ ends[pos] \in Nat /\ read < ends[pos]
          BY <2>1, <3>3 DEF Exact, Waiting
        <4>2. ends[pos] <= ends[i]
          <5>1. CASE i = pos
            BY <4>1, <5>1
          <5>2. CASE pos < i
            BY <3>1, <4>1, <5>2 DEF Exact, Increasing
          <5> QED
            BY <2>1, <3>3, <5>1, <5>2
        <4> QED
          BY <2>1, <3>1, <3>3, <4>1, <4>2
      <3> QED
        BY <2>1, <3>2, <3>3
    <2>3. {i \in DOMAIN ends : ends[i] <= read} = 1..(pos - 1)
      BY <2>1, <2>2
    <2>4. Cardinality(1..(pos - 1)) = pos - 1
      <3>1. Cardinality(1..(pos - 1)) = IF 1 > pos - 1 THEN 0 ELSE (pos - 1) - 1 + 1
        BY <2>1, FS_Interval
      <3> QED
        BY <2>1, <3>1
    <2>5. LookedAt = pos - 1
      <3>1. batch = <<>>
        BY DEF Exact, Batched
      <3> QED
        BY <2>1, <3>1 DEF LookedAt
    <2>6. DOMAIN delivered = 1..Len(delivered)
      BY DEF Exact, Looked
    <2>7. {delivered[i] : i \in DOMAIN delivered} = {k \in 1..(pos - 1) : Decodes(k)}
      BY <2>5, <2>6, ZenonT(30) DEF Exact, Looked, Decodes
    <2>8. pos = Cardinality({i \in DOMAIN ends : ends[i] <= read}) + 1
      <3>1. pos = (pos - 1) + 1
        BY <2>1
      <3> QED
        BY <2>3, <2>4, <3>1
    <2>9. \A i, j \in DOMAIN delivered : i < j => delivered[i] < delivered[j]
      BY <2>6 DEF Exact, Looked
    <2> QED
      BY <2>7, <2>8, <2>9
  <1> QED
    BY <1>1, <1>2, ExactStep, PlaceHolds, PTL DEF Spec

(***************************************************************************)
(* The session: the messages a client has still to read.                   *)
(***************************************************************************)

(* A message that moves the client, one that takes it into a channel, and  *)
(* the channel it is in afterwards.                                        *)
Moves(m) == m.msg \in {"joined", "echoready", "left"}
Enters(m) == m.msg \in {"joined", "echoready"}
RoomAfter(m) == IF m.msg = "joined" THEN m.ch
                ELSE IF m.msg = "echoready" THEN Echo ELSE None

Settled(s) == \A i \in 1..Len(s) : ~Moves(s[i])

(* Nothing moves the client strictly between two places of the stream. *)
StillBetween(s, i, j) == \A l \in (i + 1)..(j - 1) : ~Moves(s[l])

Latest(s, r) ==
    \A i \in 1..Len(s) :
        Moves(s[i]) /\ StillBetween(s, i, Len(s) + 1) => RoomAfter(s[i]) = r

Alternates(s, out) ==
    \A i \in 1..Len(s) : Enters(s[i]) =>
        /\ StillBetween(s, 0, i) => out
        /\ \A j \in 1..(i - 1) :
               Moves(s[j]) /\ StillBetween(s, j, i) => s[j].msg = "left"

(* Queue after wire: the stream the client has still to read. *)
LEMMA Handed ==
  ASSUME NEW M, NEW q \in Seq(M), NEW w \in Seq(M), w # <<>>
  PROVE  Append(q, Head(w)) \o Tail(w) = q \o w
  <1>1. /\ Head(w) \in M /\ Tail(w) \in Seq(M) /\ Len(Tail(w)) = Len(w) - 1
        /\ \A i \in 1..Len(Tail(w)) : Tail(w)[i] = w[i + 1]
        /\ Head(w) = w[1] /\ Len(w) \in Nat \ {0} /\ Len(q) \in Nat
    BY EmptySeq, HeadTailProperties, LenProperties
  <1> DEFINE a == Append(q, Head(w))
  <1>2. /\ a \in Seq(M) /\ Len(a) = Len(q) + 1
        /\ \A i \in 1..Len(q) : a[i] = q[i]
        /\ a[Len(q) + 1] = w[1]
    BY <1>1, AppendProperties
  <1>3. /\ a \o Tail(w) \in Seq(M) /\ Len(a \o Tail(w)) = Len(a) + Len(Tail(w))
        /\ \A i \in 1..(Len(a) + Len(Tail(w))) :
              (a \o Tail(w))[i] = IF i <= Len(a) THEN a[i] ELSE Tail(w)[i - Len(a)]
    <2> HIDE DEF a
    <2> QED
      BY <1>1, <1>2, ConcatProperties
  <1>4. /\ q \o w \in Seq(M) /\ Len(q \o w) = Len(q) + Len(w)
        /\ \A i \in 1..(Len(q) + Len(w)) :
              (q \o w)[i] = IF i <= Len(q) THEN q[i] ELSE w[i - Len(q)]
    BY ConcatProperties
  <1> HIDE DEF a
  <1>5. Len(a \o Tail(w)) = Len(q \o w)
    BY <1>1, <1>2, <1>3, <1>4
  <1>6. ASSUME NEW i \in 1..Len(q \o w)
        PROVE  (a \o Tail(w))[i] = (q \o w)[i]
    <2>1. CASE i <= Len(q)
      BY <1>1, <1>2, <1>3, <1>4, <2>1
    <2>2. CASE i = Len(q) + 1
      BY <1>1, <1>2, <1>3, <1>4, <2>2
    <2>3. CASE i > Len(q) + 1
      <3>1. Tail(w)[i - Len(a)] = w[i - Len(q)]
        BY <1>1, <1>2, <1>4, <2>3
      <3> QED
        BY <1>1, <1>2, <1>3, <1>4, <1>5, <2>3, <3>1
    <2>4. i \in Int /\ Len(q) \in Int
      BY <1>1, <1>4
    <2> DEFINE same == (a \o Tail(w))[i] = (q \o w)[i]
    <2>5. (i <= Len(q) => same) /\ (i = Len(q) + 1 => same) /\ (i > Len(q) + 1 => same)
      BY <2>1, <2>2, <2>3
    <2> HIDE DEF same
    <2>6. same
      BY <2>4, <2>5
    <2> QED
      BY <2>6 DEF same
  <1> QED
    BY <1>3, <1>4, <1>5, <1>6, SeqEqual DEF a

(* An answer that reaches the wire joins the end of the stream. *)
LEMMA Answered ==
  ASSUME NEW M, NEW q \in Seq(M), NEW w \in Seq(M), NEW m \in M
  PROVE  q \o Append(w, m) = Append(q \o w, m)
  <1>1. /\ <<m>> \in Seq(M) /\ q \o w \in Seq(M)
    BY ConcatProperties
  <1>2. Append(w, m) = w \o <<m>> /\ Append(q \o w, m) = (q \o w) \o <<m>>
    BY <1>1, AppendIsConcat
  <1> QED
    BY <1>1, <1>2, ConcatAssociative

(* A message taken from the queue is the first of the stream. *)
LEMMA Taken ==
  ASSUME NEW M, NEW q \in Seq(M), NEW w \in Seq(M), q # <<>>
  PROVE  /\ q \o w \in Seq(M) /\ q \o w # <<>>
         /\ Head(q \o w) = Head(q)
         /\ Tail(q) \o w = Tail(q \o w)
  <1> DEFINE s == q \o w
  <1>1. /\ Tail(q) \in Seq(M) /\ Len(Tail(q)) = Len(q) - 1
        /\ \A i \in 1..Len(Tail(q)) : Tail(q)[i] = q[i + 1]
        /\ Head(q) = q[1] /\ Len(q) \in Nat \ {0} /\ Len(w) \in Nat
    BY EmptySeq, HeadTailProperties, LenProperties
  <1>2. /\ s \in Seq(M) /\ Len(s) = Len(q) + Len(w)
        /\ \A i \in 1..(Len(q) + Len(w)) : s[i] = IF i <= Len(q) THEN q[i] ELSE w[i - Len(q)]
    BY ConcatProperties
  <1>3. s # <<>>
    BY ConcatEqualIffEmpty
  <1> HIDE DEF s
  <1>4. /\ Tail(s) \in Seq(M) /\ Len(Tail(s)) = Len(s) - 1 /\ Head(s) = s[1]
        /\ \A i \in 1..Len(Tail(s)) : Tail(s)[i] = s[i + 1]
    BY <1>2, <1>3, HeadTailProperties
  <1>5. Head(s) = Head(q)
    BY <1>1, <1>2, <1>4
  <1> DEFINE t == Tail(q) \o w
  <1>6. /\ t \in Seq(M) /\ Len(t) = Len(Tail(q)) + Len(w)
        /\ \A i \in 1..(Len(Tail(q)) + Len(w)) :
              t[i] = IF i <= Len(Tail(q)) THEN Tail(q)[i] ELSE w[i - Len(Tail(q))]
    BY <1>1, ConcatProperties
  <1> HIDE DEF t
  <1>7. Len(t) = Len(Tail(s))
    BY <1>1, <1>2, <1>4, <1>6
  <1>8. ASSUME NEW i \in 1..Len(t)
        PROVE  t[i] = Tail(s)[i]
    <2>1. CASE i <= Len(Tail(q))
      BY <1>1, <1>2, <1>4, <1>6, <1>7, <2>1
    <2>2. CASE i > Len(Tail(q))
      <3>1. t[i] = w[i - Len(Tail(q))]
        BY <1>1, <1>6, <2>2
      <3>2. s[i + 1] = w[(i + 1) - Len(q)]
        BY <1>1, <1>2, <1>6, <2>2
      <3> QED
        BY <1>1, <1>4, <1>7, <3>1, <3>2
    <2>3. i \in Int /\ Len(Tail(q)) \in Int
      BY <1>1
    <2> DEFINE same == t[i] = Tail(s)[i]
    <2>4. (i <= Len(Tail(q)) => same) /\ (i > Len(Tail(q)) => same)
      BY <2>1, <2>2
    <2> HIDE DEF same
    <2>5. same
      BY <2>3, <2>4
    <2> QED
      BY <2>5 DEF same
  <1>9. t = Tail(s)
    BY <1>4, <1>6, <1>7, <1>8, SeqEqual
  <1> QED
    BY <1>2, <1>3, <1>5, <1>9 DEF s, t

(* Reading the first message of a stream. *)
LEMMA DropFirst ==
  ASSUME NEW M, NEW s \in Seq(M), s # <<>>, NEW r,
         NEW out \in BOOLEAN, NEW out2 \in BOOLEAN,
         Latest(s, r), Alternates(s, out),
         Head(s).msg = "left" => out2, ~Moves(Head(s)) => (out => out2)
  PROVE  /\ Latest(Tail(s), r)
         /\ Alternates(Tail(s), out2)
         /\ Enters(Head(s)) => out
         /\ Settled(Tail(s)) =>
               IF Moves(Head(s)) THEN RoomAfter(Head(s)) = r ELSE Settled(s)
  <1> DEFINE t == Tail(s)
  <1>1. /\ Len(t) \in Nat /\ Len(s) = Len(t) + 1 /\ Head(s) = s[1]
        /\ \A i \in 1..Len(t) : t[i] = s[i + 1]
    BY EmptySeq, HeadTailProperties, LenProperties
  <1> HIDE DEF t
  <1>2. ASSUME NEW i \in Nat, NEW j \in 0..(Len(t) + 1), StillBetween(t, i, j)
        PROVE  StillBetween(s, i + 1, j + 1)
    <2> SUFFICES ASSUME NEW l \in (i + 2)..j PROVE ~Moves(s[l])
      BY DEF StillBetween
    <2>1. l - 1 \in (i + 1)..(j - 1) /\ l - 1 \in 1..Len(t) /\ (l - 1) + 1 = l
      BY <1>1
    <2>2. t[l - 1] = s[l]
      BY <1>1, <2>1
    <2> QED
      BY <1>2, <2>1, <2>2 DEF StillBetween
  <1>3. Latest(t, r)
    <2> SUFFICES ASSUME NEW i \in 1..Len(t), Moves(t[i]), StillBetween(t, i, Len(t) + 1)
                 PROVE  RoomAfter(t[i]) = r
      BY DEF Latest
    <2>1. t[i] = s[i + 1] /\ i + 1 \in 1..Len(s)
      BY <1>1
    <2>2. StillBetween(s, i + 1, Len(s) + 1)
      BY <1>1, <1>2
    <2> QED
      BY <2>1, <2>2 DEF Latest
  <1>4. ASSUME NEW i \in 1..Len(t), Enters(t[i]), StillBetween(t, 0, i)
        PROVE  out2
    <2>1. t[i] = s[i + 1] /\ i + 1 \in 1..Len(s) /\ 1 \in 1..((i + 1) - 1)
      BY <1>1
    <2>2. StillBetween(s, 1, i + 1)
      BY <1>1, <1>2, <1>4
    <2>3. CASE Moves(s[1])
      BY <1>1, <1>4, <2>1, <2>2, <2>3 DEF Alternates
    <2>4. CASE ~Moves(s[1])
      <3>1. StillBetween(s, 0, i + 1)
        BY <2>2, <2>4 DEF StillBetween
      <3> QED
        BY <1>1, <1>4, <2>1, <2>4, <3>1 DEF Alternates
    <2> QED
      BY <2>3, <2>4
  <1>5. ASSUME NEW i \in 1..Len(t), Enters(t[i]), NEW j \in 1..(i - 1), Moves(t[j]),
               StillBetween(t, j, i)
        PROVE  t[j].msg = "left"
    <2>1. /\ t[i] = s[i + 1] /\ i + 1 \in 1..Len(s)
          /\ t[j] = s[j + 1] /\ j + 1 \in 1..((i + 1) - 1)
      BY <1>1
    <2>2. StillBetween(s, j + 1, i + 1)
      BY <1>1, <1>2, <1>5
    <2> QED
      BY <1>5, <2>1, <2>2 DEF Alternates
  <1>6. Alternates(t, out2)
    BY <1>4, <1>5 DEF Alternates
  <1>7. 1 \in 1..Len(s)
    BY <1>1
  <1>8. Enters(Head(s)) => out
    <2>1. StillBetween(s, 0, 1)
      BY DEF StillBetween
    <2> QED
      BY <1>1, <1>7, <2>1 DEF Alternates
  <1>9. ASSUME Settled(t)
        PROVE  IF Moves(Head(s)) THEN RoomAfter(Head(s)) = r ELSE Settled(s)
    <2>1. \A i \in 2..Len(s) : ~Moves(s[i])
      <3> SUFFICES ASSUME NEW i \in 2..Len(s) PROVE ~Moves(s[i])
        OBVIOUS
      <3>1. i - 1 \in 1..Len(t) /\ (i - 1) + 1 = i
        BY <1>1
      <3> QED
        BY <1>1, <1>9, <3>1 DEF Settled
    <2>2. StillBetween(s, 1, Len(s) + 1)
      BY <1>1, <2>1 DEF StillBetween
    <2>3. Moves(s[1]) => RoomAfter(s[1]) = r
      BY <1>7, <2>2 DEF Latest
    <2>4. ~Moves(s[1]) => Settled(s)
      BY <1>1, <2>1 DEF Settled
    <2> QED
      BY <1>1, <2>3, <2>4
  <1> QED
    BY <1>3, <1>6, <1>8, <1>9 DEF t

(* Adding a last message to a stream. *)
LEMMA AddLast ==
  ASSUME NEW M, NEW s \in Seq(M), NEW m \in M, NEW r, NEW out \in BOOLEAN,
         Latest(s, r), Alternates(s, out),
         Enters(m) => /\ Settled(s) => out
                      /\ \A i \in 1..Len(s) : Moves(s[i]) /\ RoomAfter(s[i]) = r
                                                => s[i].msg = "left"
  PROVE  /\ Latest(Append(s, m), IF Moves(m) THEN RoomAfter(m) ELSE r)
         /\ Alternates(Append(s, m), out)
         /\ Settled(Append(s, m)) => Settled(s) /\ ~Moves(m)
  <1> DEFINE t == Append(s, m)
              n == Len(s) + 1
  <1>1. /\ Len(s) \in Nat /\ Len(t) = n /\ t[n] = m
        /\ \A i \in 1..Len(s) : t[i] = s[i]
    BY AppendProperties, LenProperties
  <1> HIDE DEF t
  <1>2. ASSUME NEW i \in Nat, NEW j \in 1..n, StillBetween(t, i, j)
        PROVE  StillBetween(s, i, j)
    BY <1>1, <1>2 DEF StillBetween
  <1>3. Latest(t, IF Moves(m) THEN RoomAfter(m) ELSE r)
    <2> SUFFICES ASSUME NEW i \in 1..Len(t), Moves(t[i]), StillBetween(t, i, Len(t) + 1)
                 PROVE  RoomAfter(t[i]) = IF Moves(m) THEN RoomAfter(m) ELSE r
      BY DEF Latest
    <2>1. CASE i = n
      BY <1>1, <2>1
    <2>2. CASE i \in 1..Len(s)
      <3>1. n \in (i + 1)..((Len(t) + 1) - 1)
        BY <1>1, <2>2
      <3>2. ~Moves(m)
        BY <1>1, <3>1 DEF StillBetween
      <3>3. StillBetween(t, i, n)
        BY <1>1, <2>2 DEF StillBetween
      <3>4. StillBetween(s, i, n)
        BY <1>1, <1>2, <2>2, <3>3
      <3> QED
        BY <1>1, <2>2, <3>2, <3>4 DEF Latest
    <2> QED
      BY <1>1, <2>1, <2>2
  <1>4. Alternates(t, out)
    <2>1. ASSUME NEW i \in 1..Len(s), Enters(t[i])
          PROVE  /\ StillBetween(t, 0, i) => out
                 /\ \A j \in 1..(i - 1) :
                       Moves(t[j]) /\ StillBetween(t, j, i) => t[j].msg = "left"
      <3>1. t[i] = s[i] /\ i \in 1..n
        BY <1>1
      <3>2. StillBetween(t, 0, i) => out
        BY <1>2, <2>1, <3>1 DEF Alternates
      <3>3. ASSUME NEW j \in 1..(i - 1), Moves(t[j]), StillBetween(t, j, i)
            PROVE  t[j].msg = "left"
        <4>1. j \in 1..Len(s) /\ j \in Nat
          BY <1>1
        <4>2. t[j] = s[j] /\ StillBetween(s, j, i)
          BY <1>1, <1>2, <3>1, <3>3, <4>1
        <4> QED
          BY <2>1, <3>1, <3>3, <4>2 DEF Alternates
      <3> QED
        BY <3>2, <3>3
    <2>2. ASSUME Enters(m)
          PROVE  /\ StillBetween(t, 0, n) => out
                 /\ \A j \in 1..(n - 1) :
                       Moves(t[j]) /\ StillBetween(t, j, n) => t[j].msg = "left"
      <3>1. ASSUME StillBetween(t, 0, n) PROVE out
        <4>1. Settled(s)
          BY <1>1, <3>1 DEF StillBetween, Settled
        <4> QED
          BY <2>2, <4>1
      <3>2. ASSUME NEW j \in 1..(n - 1), Moves(t[j]), StillBetween(t, j, n)
            PROVE  t[j].msg = "left"
        <4>1. j \in 1..Len(s) /\ j \in Nat /\ n \in 1..n
          BY <1>1
        <4>2. t[j] = s[j] /\ StillBetween(s, j, n)
          BY <1>1, <1>2, <3>2, <4>1
        <4> QED
          BY <2>2, <3>2, <4>1, <4>2 DEF Latest
      <3> QED
        BY <3>1, <3>2
    <2> QED
      BY <1>1, <2>1, <2>2 DEF Alternates
  <1>5. Settled(t) => Settled(s) /\ ~Moves(m)
    BY <1>1 DEF Settled
  <1> QED
    BY <1>3, <1>4, <1>5 DEF t

(* What is queued and what is under way, by what the event loop sends and  *)
(* what the server answers.                                                *)
Cmds(p) == [cmd : {"join", "create"}, ch : Rooms[p]]
           \union [cmd : {"leave", "echo", "stopecho", "say"}]
Msgs(p) == [msg : {"joined", "created"}, ch : Rooms[p]]
           \union [msg : {"echoready", "left", "other"}]
Queued(p) == Msgs(p) \union [msg : {"closed"}]

SessionTypes(p) ==
    /\ link \in [1..MaxConns -> {"new", "up", "closed"}]
    /\ cmdq \in [1..MaxConns -> Seq(Cmds(p))]
    /\ wire \in [1..MaxConns -> Seq(Msgs(p))]
    /\ msgq \in Seq(Queued(p))
    /\ room \in [1..MaxConns -> Rooms[p] \union {Echo, None}]
    /\ conn \in 0..MaxConns
    /\ channel \in Rooms[p] \union {None}
    /\ rejoin \in Rooms[p] \union {None}
    /\ voiceActive \in BOOLEAN

(* The event loop holds both ends of one connection, and the parameters of *)
(* the channel it shows; a connection not made yet has carried nothing.    *)
Held ==
    /\ conn # 0 => rx = conn
    /\ joinParams = channel
    /\ \A k \in 1..MaxConns : link[k] = "new" => wire[k] = <<>> /\ room[k] = None

(* The marker that ends the stream is the last message of its connection. *)
ClosedLast ==
    \A i \in 1..Len(msgq) : msgq[i].msg = "closed" => i = Len(msgq) /\ rx \notin reader

(* The client shows no channel and streams to none. *)
Out == channel = None /\ ~voiceActive

(* Until it has connected again, nothing brings it into one. *)
RetryOutside == retry => Out /\ msgq = <<>> /\ rx \notin reader

Leaving(q) == \E i \in 1..Len(q) : q[i].cmd = "leave"

(* What the client shows agrees with the channel r the server has it in,   *)
(* unless it has asked to leave it, or was refused when it asked.          *)
Shown(r, q) ==
    /\ \/ channel = r
       \/ channel = None /\ (r = Echo \/ Leaving(q) \/ conn \in stayed)
    /\ voiceActive => voice = r /\ r # None

(* It is told by this connection of all its moves. *)
Online == conn # 0 /\ link[conn] = "up" /\ conn \in reader /\ conn \notin missed

(* The messages the client has still to act on, oldest first. *)
Unread == msgq \o wire[conn]

(* The last of them that moves the client says where the server has it, a  *)
(* channel is entered only after the one before was left, and when none is *)
(* left to act on, what the client shows is right.                         *)
Follows ==
    Online => /\ Latest(Unread, room[conn])
              /\ Alternates(Unread, Out)
              /\ Settled(Unread) => Shown(room[conn], cmdq[conn])

SessionInv(p) == SessionTypes(p) /\ Held /\ ClosedLast /\ RetryOutside /\ Follows

(* The parameters of the scenarios, as the proofs use them. *)
LEMMA Parameters ==
  ASSUME NEW p \in Scenarios
  PROVE  /\ MaxConns \in Nat \ {0}
         /\ 0 \in 0..MaxConns /\ 1..MaxConns \subseteq 0..MaxConns
         /\ Echo \notin Rooms[p] /\ None \notin Rooms[p] /\ Echo # None
  BY ScenarioAssumption DEF Session!SessionAssumption

(* The commands by name, and which of them name a channel. *)
LEMMA CmdRecords ==
  ASSUME NEW p
  PROVE  /\ \A r \in Rooms[p] : [cmd |-> "join", ch |-> r] \in Cmds(p)
         /\ \A r \in Rooms[p] : [cmd |-> "create", ch |-> r] \in Cmds(p)
         /\ [cmd |-> "leave"] \in Cmds(p) /\ [cmd |-> "echo"] \in Cmds(p)
         /\ [cmd |-> "stopecho"] \in Cmds(p) /\ [cmd |-> "say"] \in Cmds(p)
         /\ \A c \in Cmds(p) : c.cmd \in {"join", "create"} => c.ch \in Rooms[p]
  <1>1. \A r \in Rooms[p] : [cmd |-> "join", ch |-> r] \in Cmds(p)
    BY DEF Cmds
  <1>2. \A r \in Rooms[p] : [cmd |-> "create", ch |-> r] \in Cmds(p)
    BY DEF Cmds
  <1>3. [cmd |-> "leave"] \in Cmds(p) /\ [cmd |-> "echo"] \in Cmds(p)
    BY DEF Cmds
  <1>4. [cmd |-> "stopecho"] \in Cmds(p) /\ [cmd |-> "say"] \in Cmds(p)
    BY DEF Cmds
  <1>5. \A c \in Cmds(p) : c.cmd \in {"join", "create"} => c.ch \in Rooms[p]
    BY DEF Cmds
  <1> QED
    BY <1>1, <1>2, <1>3, <1>4, <1>5

(* The messages by name, and which of them name a channel. *)
LEMMA MsgRecords ==
  ASSUME NEW p
  PROVE  /\ \A r \in Rooms[p] : [msg |-> "joined", ch |-> r] \in Msgs(p)
         /\ \A r \in Rooms[p] : [msg |-> "created", ch |-> r] \in Msgs(p)
         /\ [msg |-> "echoready"] \in Msgs(p) /\ [msg |-> "left"] \in Msgs(p)
         /\ [msg |-> "other"] \in Msgs(p)
         /\ [msg |-> "closed"] \in Queued(p) /\ Msgs(p) \subseteq Queued(p)
         /\ \A m \in Queued(p) : m.msg \in {"joined", "created"} => m.ch \in Rooms[p]
         /\ \A m \in Msgs(p) : m.msg # "closed"
  <1>1. \A r \in Rooms[p] : [msg |-> "joined", ch |-> r] \in Msgs(p)
    BY DEF Msgs
  <1>2. \A r \in Rooms[p] : [msg |-> "created", ch |-> r] \in Msgs(p)
    BY DEF Msgs
  <1>3. [msg |-> "echoready"] \in Msgs(p) /\ [msg |-> "left"] \in Msgs(p)
    BY DEF Msgs
  <1>4. [msg |-> "other"] \in Msgs(p)
    BY DEF Msgs
  <1>5. [msg |-> "closed"] \in Queued(p) /\ Msgs(p) \subseteq Queued(p)
    BY DEF Queued
  <1>6. \A m \in Queued(p) : m.msg \in {"joined", "created"} => m.ch \in Rooms[p]
    BY DEF Queued, Msgs
  <1>7. \A m \in Msgs(p) : m.msg # "closed"
    BY DEF Msgs
  <1> QED
    BY <1>1, <1>2, <1>3, <1>4, <1>5, <1>6, <1>7

(* A command is queued, or the connection is let go of, or there was none. *)
LEMMA Sends ==
  ASSUME NEW p \in Scenarios, NEW m \in Cmds(p), SessionTypes(p),
         Session(p)!SendOrDisconnect(m)
  PROVE  /\ cmdq' \in [1..MaxConns -> Seq(Cmds(p))]
         /\ conn' \in {0, conn}
         /\ conn' # 0 => conn # 0 /\ cmdq'[conn] = Append(cmdq[conn], m)
  <1>1. conn = 0 \/ conn \in 1..MaxConns
    BY Parameters DEF SessionTypes
  <1>2. CASE conn = 0 /\ UNCHANGED <<cmdq, conn, connState>>
    BY <1>2 DEF SessionTypes
  <1>3. CASE conn # 0 /\ cmdq' = [cmdq EXCEPT ![conn] = Append(@, m)] /\ UNCHANGED conn
    <2>1. Append(cmdq[conn], m) \in Seq(Cmds(p))
      BY <1>1, <1>3, AppendProperties DEF SessionTypes
    <2> QED
      BY <1>1, <1>3, <2>1 DEF SessionTypes
  <1>4. CASE conn' = 0 /\ UNCHANGED cmdq
    BY <1>4 DEF SessionTypes
  <1> QED
    BY <1>2, <1>3, <1>4 DEF Session!SendOrDisconnect, Session!NoConn

(* A command queued behind a leave does not take it back. *)
LEMMA LeavingAppend ==
  ASSUME NEW M, NEW q \in Seq(M), NEW m \in M
  PROVE  /\ Leaving(q) => Leaving(Append(q, m))
         /\ m.cmd = "leave" => Leaving(Append(q, m))
  <1>1. /\ Len(Append(q, m)) = Len(q) + 1 /\ Len(q) \in Nat
        /\ \A i \in 1..Len(q) : Append(q, m)[i] = q[i]
        /\ Append(q, m)[Len(q) + 1] = m
    BY AppendProperties, LenProperties
  <1> QED
    BY <1>1 DEF Leaving

(* A step of the event loop that reads no message. *)
LEMMA LocalStep ==
  ASSUME NEW p \in Scenarios, SessionInv(p),
         UNCHANGED <<link, reader, wire, room, stayed, missed, rx, msgq, retry>>,
         cmdq' \in [1..MaxConns -> Seq(Cmds(p))], conn' \in {0, conn},
         channel' \in Rooms[p] \union {None}, rejoin' \in Rooms[p] \union {None},
         joinParams' = channel', voiceActive' \in BOOLEAN,
         Out => Out',
         conn' # 0 /\ Shown(room[conn], cmdq[conn]) => Shown(room[conn], cmdq[conn])'
  PROVE  SessionInv(p)'
  <1>1. SessionTypes(p)'
    BY Parameters DEF SessionInv, SessionTypes
  <1>2. Held' /\ ClosedLast' /\ RetryOutside'
    BY DEF SessionInv, Held, ClosedLast, RetryOutside
  <1>3. Follows'
    <2> SUFFICES ASSUME Online' PROVE Follows'
      BY DEF Follows
    <2>1. conn' = conn /\ Online
      BY DEF Online
    <2>2. Unread' = Unread /\ room'[conn'] = room[conn]
      BY <2>1 DEF Unread
    <2>3. Latest(Unread, room[conn])'
      BY <2>1, <2>2 DEF SessionInv, Follows
    <2>4. Alternates(Unread, Out)'
      BY <2>1, <2>2 DEF SessionInv, Follows, Alternates
    <2>5. Settled(Unread)' => Shown(room[conn], cmdq[conn])'
      BY <2>1, <2>2 DEF SessionInv, Follows, Online
    <2> QED
      BY <2>3, <2>4, <2>5 DEF Follows
  <1> QED
    BY <1>1, <1>2, <1>3 DEF SessionInv

(* The connection held is one of those made, and what it carries is typed. *)
LEMMA UnreadTyped ==
  ASSUME NEW p \in Scenarios, SessionTypes(p), conn # 0
  PROVE  /\ conn \in 1..MaxConns
         /\ wire[conn] \in Seq(Msgs(p)) /\ wire[conn] \in Seq(Queued(p))
         /\ Unread \in Seq(Queued(p)) /\ cmdq[conn] \in Seq(Cmds(p))
  <1>1. conn \in 1..MaxConns
    BY Parameters DEF SessionTypes
  <1>2. wire[conn] \in Seq(Msgs(p)) /\ wire[conn] \in Seq(Queued(p))
    BY <1>1, MsgRecords, SeqMonotonic DEF SessionTypes
  <1> QED
    BY <1>1, <1>2, ConcatProperties DEF SessionTypes, Unread

(* A command that only sends may lose the connection, and changes nothing else. *)
LEMMA SendStep ==
  ASSUME NEW p \in Scenarios, SessionInv(p), NEW kind, NEW m \in Cmds(p),
         Session(p)!CmdSend(kind, m)
  PROVE  SessionInv(p)'
  <1>1. /\ UNCHANGED <<link, reader, wire, room, stayed, missed, rx, msgq, channel,
                       joinParams, rejoin, voice, voiceActive, retry>>
        /\ Session(p)!SendOrDisconnect(m)
    BY DEF Session!CmdSend, Session!serverVars, Session!loopVars
  <1>2. /\ cmdq' \in [1..MaxConns -> Seq(Cmds(p))] /\ conn' \in {0, conn}
        /\ conn' # 0 => conn # 0 /\ cmdq'[conn] = Append(cmdq[conn], m)
    BY <1>1, Sends DEF SessionInv
  <1>3. conn' # 0 => conn' = conn /\ cmdq[conn] \in Seq(Cmds(p))
    BY <1>2, UnreadTyped DEF SessionInv
  <1>4. conn' # 0 /\ Shown(room[conn], cmdq[conn]) => Shown(room[conn], cmdq[conn])'
    BY <1>1, <1>2, <1>3, LeavingAppend DEF Shown
  <1>5. /\ channel' \in Rooms[p] \union {None} /\ rejoin' \in Rooms[p] \union {None}
        /\ joinParams' = channel' /\ voiceActive' \in BOOLEAN /\ (Out => Out')
    BY <1>1 DEF SessionInv, SessionTypes, Held, Out
  <1> QED
    BY <1>1, <1>2, <1>4, <1>5, LocalStep

(* After /leave the client shows no channel; the request to leave is queued. *)
LEMMA LeaveStep ==
  ASSUME NEW p \in Scenarios, SessionInv(p), Session(p)!CmdLeave
  PROVE  SessionInv(p)'
  <1> DEFINE m == [cmd |-> "leave"]
  <1>1. /\ UNCHANGED <<link, reader, wire, room, stayed, missed, rx, msgq, retry>>
        /\ channel' = None /\ joinParams' = None /\ rejoin' = None /\ voiceActive' = FALSE
        /\ Session(p)!SendOrDisconnect(m)
    BY DEF Session!CmdLeave, Session!serverVars
  <1>2. m \in Cmds(p) /\ m.cmd = "leave"
    BY CmdRecords
  <1> HIDE DEF m
  <1>3. /\ cmdq' \in [1..MaxConns -> Seq(Cmds(p))] /\ conn' \in {0, conn}
        /\ conn' # 0 => conn # 0 /\ cmdq'[conn] = Append(cmdq[conn], m)
    BY <1>1, <1>2, Sends DEF SessionInv
  <1>4. conn' # 0 => conn' = conn /\ cmdq[conn] \in Seq(Cmds(p))
    BY <1>3, UnreadTyped DEF SessionInv
  <1>5. conn' # 0 => Shown(room[conn], cmdq[conn])'
    BY <1>1, <1>2, <1>3, <1>4, LeavingAppend DEF Shown
  <1>6. Out'
    BY <1>1 DEF Out
  <1> QED
    BY <1>1, <1>3, <1>5, <1>6, LocalStep

(* The end of an echo test stops the voice and asks the server to stop. *)
LEMMA DeadlineStep ==
  ASSUME NEW p \in Scenarios, SessionInv(p), Session(p)!EchoDeadline
  PROVE  SessionInv(p)'
  <1> DEFINE m == [cmd |-> "stopecho"]
  <1>1. /\ UNCHANGED <<link, reader, wire, room, stayed, missed, rx, msgq, channel,
                       joinParams, rejoin, retry>>
        /\ voiceActive' = FALSE
        /\ Session(p)!SendOrDisconnect(m)
    BY DEF Session!EchoDeadline, Session!serverVars
  <1>2. m \in Cmds(p)
    BY CmdRecords
  <1> HIDE DEF m
  <1>3. /\ cmdq' \in [1..MaxConns -> Seq(Cmds(p))] /\ conn' \in {0, conn}
        /\ conn' # 0 => conn # 0 /\ cmdq'[conn] = Append(cmdq[conn], m)
    BY <1>1, <1>2, Sends DEF SessionInv
  <1>4. conn' # 0 => conn' = conn /\ cmdq[conn] \in Seq(Cmds(p))
    BY <1>3, UnreadTyped DEF SessionInv
  <1>5. conn' # 0 /\ Shown(room[conn], cmdq[conn]) => Shown(room[conn], cmdq[conn])'
    BY <1>1, <1>2, <1>3, <1>4, LeavingAppend DEF Shown
  <1>6. /\ channel' \in Rooms[p] \union {None} /\ rejoin' \in Rooms[p] \union {None}
        /\ joinParams' = channel' /\ voiceActive' \in BOOLEAN /\ (Out => Out')
    BY <1>1 DEF SessionInv, SessionTypes, Held, Out
  <1> QED
    BY <1>1, <1>3, <1>5, <1>6, LocalStep

(* Voice is restarted for the channel shown. *)
LEMMA RestartStep ==
  ASSUME NEW p \in Scenarios, SessionInv(p), Session(p)!RestartVoice
  PROVE  SessionInv(p)'
  <1>1. /\ UNCHANGED <<link, cmdq, reader, wire, room, stayed, missed, conn, rx, msgq,
                       channel, joinParams, rejoin, retry>>
        /\ joinParams # None /\ joinParams = channel
        /\ \/ voice' = joinParams /\ voiceActive' = TRUE
           \/ voice' = None /\ voiceActive' = FALSE
    BY DEF Session!RestartVoice, Session!serverVars, Session!netVars, SessionInv, Held
  <1>2. /\ cmdq' \in [1..MaxConns -> Seq(Cmds(p))]
        /\ channel' \in Rooms[p] \union {None} /\ rejoin' \in Rooms[p] \union {None}
        /\ joinParams' = channel' /\ voiceActive' \in BOOLEAN /\ ~Out
    BY <1>1 DEF SessionInv, SessionTypes, Out
  <1>3. Shown(room[conn], cmdq[conn]) => Shown(room[conn], cmdq[conn])'
    BY <1>1 DEF Shown
  <1> QED
    BY <1>1, <1>2, <1>3, LocalStep

(***************************************************************************)
(* Messages.                                                               *)
(***************************************************************************)

(* A message the event loop acts on, other than the end of the stream. *)
LEMMA TakeStep ==
  ASSUME NEW p \in Scenarios, SessionInv(p), NEW t, Session(p)!TakeMessage(t),
         UNCHANGED retry,
         cmdq' \in [1..MaxConns -> Seq(Cmds(p))], conn' \in {0, conn},
         channel' \in Rooms[p] \union {None}, rejoin' \in Rooms[p] \union {None},
         joinParams' = channel', voiceActive' \in BOOLEAN,
         t = "left" => Out',
         ~Moves(Head(msgq)) => (Out => Out'),
         conn' # 0 /\ ~Moves(Head(msgq)) /\ Shown(room[conn], cmdq[conn])
            => Shown(room[conn], cmdq[conn])',
         conn' # 0 /\ Moves(Head(msgq)) /\ room[conn] = RoomAfter(Head(msgq))
                   /\ (Enters(Head(msgq)) => Out)
            => Shown(room[conn], cmdq[conn])'
  PROVE  SessionInv(p)'
  <1>1. /\ msgq # <<>> /\ Head(msgq).msg = t /\ msgq' = Tail(msgq)
        /\ UNCHANGED <<link, reader, wire, room, stayed, missed, rx>>
    BY DEF Session!TakeMessage, Session!serverVars
  <1>2. /\ msgq \in Seq(Queued(p)) /\ msgq' \in Seq(Queued(p))
        /\ Len(msgq') = Len(msgq) - 1 /\ Len(msgq) \in Nat \ {0}
        /\ \A i \in 1..Len(msgq') : msgq'[i] = msgq[i + 1]
    BY <1>1, HeadTailProperties, EmptySeq DEF SessionInv, SessionTypes
  <1>3. SessionTypes(p)'
    BY <1>1, <1>2, Parameters DEF SessionInv, SessionTypes
  <1>4. Held'
    BY <1>1 DEF SessionInv, Held
  <1>5. ClosedLast'
    <2> SUFFICES ASSUME NEW i \in 1..Len(msgq'), msgq'[i].msg = "closed"
                 PROVE  i = Len(msgq') /\ rx' \notin reader'
      BY DEF ClosedLast
    <2>1. i + 1 \in 1..Len(msgq) /\ msgq[i + 1].msg = "closed"
      BY <1>2
    <2>2. i + 1 = Len(msgq) /\ rx \notin reader
      BY <2>1 DEF SessionInv, ClosedLast
    <2>3. i \in Int /\ Len(msgq) \in Int /\ Len(msgq') = Len(msgq) - 1
      BY <1>2
    <2>4. i = Len(msgq')
      BY <2>2, <2>3
    <2> QED
      BY <1>1, <2>2, <2>4
  <1>6. RetryOutside'
    BY <1>1 DEF SessionInv, RetryOutside
  <1>7. Follows'
    <2> SUFFICES ASSUME Online' PROVE Follows'
      BY DEF Follows
    <2>1. conn' = conn /\ conn # 0 /\ Online /\ room' = room /\ wire' = wire
      BY <1>1 DEF Online
    <2>2. Unread \in Seq(Queued(p)) /\ wire[conn] \in Seq(Queued(p))
      BY <2>1, UnreadTyped DEF SessionInv
    <2>3. /\ Unread # <<>> /\ Head(Unread) = Head(msgq)
          /\ msgq' \o wire'[conn'] = Tail(Unread)
      <3>1. \A w \in Seq(Queued(p)) :
                /\ msgq \o w # <<>> /\ Head(msgq \o w) = Head(msgq)
                /\ Tail(msgq) \o w = Tail(msgq \o w)
        BY <1>1, <1>2, Taken
      <3> QED
        BY <1>1, <2>1, <2>2, <3>1 DEF Unread
    <2>4. /\ Latest(Unread, room[conn]) /\ Alternates(Unread, Out)
          /\ Settled(Unread) => Shown(room[conn], cmdq[conn])
      BY <2>1 DEF SessionInv, Follows
    <2>5. Out \in BOOLEAN /\ Out' \in BOOLEAN
      BY DEF Out
    <2>6. /\ Latest(Tail(Unread), room[conn])
          /\ Alternates(Tail(Unread), Out')
          /\ Enters(Head(Unread)) => Out
          /\ Settled(Tail(Unread)) =>
                IF Moves(Head(Unread)) THEN RoomAfter(Head(Unread)) = room[conn]
                                       ELSE Settled(Unread)
      BY <1>1, <2>2, <2>3, <2>4, <2>5, DropFirst
    <2>7. Settled(Tail(Unread)) => Shown(room[conn], cmdq[conn])'
      BY <2>1, <2>3, <2>4, <2>6
    <2> QED
      BY <2>1, <2>3, <2>6, <2>7 DEF Follows, Unread
  <1> QED
    BY <1>3, <1>4, <1>5, <1>6, <1>7 DEF SessionInv

(* A joined or created message that is taken names a channel. *)
LEMMA HeadTyped ==
  ASSUME NEW p \in Scenarios, SessionTypes(p), NEW t, Session(p)!TakeMessage(t)
  PROVE  /\ Head(msgq) \in Queued(p) /\ Head(msgq).msg = t
         /\ t \in {"joined", "created"} => Head(msgq).ch \in Rooms[p]
  BY MsgRecords, HeadTailProperties DEF SessionTypes, Session!TakeMessage

(* A join is read when the client shows no channel, and shows its own. *)
LEMMA JoinedStep ==
  ASSUME NEW p \in Scenarios, SessionInv(p), Session(p)!OnJoinedChannel
  PROVE  SessionInv(p)'
  <1> DEFINE r == Head(msgq).ch
  <1>1. /\ Session(p)!TakeMessage("joined") /\ Head(msgq).msg = "joined"
        /\ UNCHANGED <<cmdq, conn, rejoin, retry, room, stayed, missed>>
        /\ channel' = r /\ joinParams' = r /\ r \in Rooms[p]
        /\ \/ voice' = r /\ voiceActive' = TRUE
           \/ UNCHANGED <<voice, voiceActive>>
    BY HeadTyped DEF Session!OnJoinedChannel, Session!TakeMessage, Session!serverVars,
                     SessionInv
  <1>2. Moves(Head(msgq)) /\ Enters(Head(msgq)) /\ RoomAfter(Head(msgq)) = r
    BY <1>1 DEF Moves, Enters, RoomAfter
  <1> HIDE DEF r
  <1>3. /\ cmdq' \in [1..MaxConns -> Seq(Cmds(p))]
        /\ channel' \in Rooms[p] \union {None} /\ rejoin' \in Rooms[p] \union {None}
        /\ joinParams' = channel' /\ voiceActive' \in BOOLEAN
    BY <1>1 DEF SessionInv, SessionTypes
  <1>4. room[conn] = r /\ Out => Shown(room[conn], cmdq[conn])'
    BY <1>1, Parameters DEF Shown, Out
  <1> QED
    BY <1>1, <1>2, <1>3, <1>4, TakeStep

(* An echo test is read when the client shows no channel, and shows none. *)
LEMMA EchoReadyStep ==
  ASSUME NEW p \in Scenarios, SessionInv(p), Session(p)!OnEchoTestReady
  PROVE  SessionInv(p)'
  <1>1. /\ Session(p)!TakeMessage("echoready") /\ Head(msgq).msg = "echoready"
        /\ UNCHANGED <<cmdq, conn, channel, joinParams, rejoin, retry, room, stayed,
                       missed>>
        /\ \/ voice' = Echo /\ voiceActive' = TRUE
           \/ UNCHANGED <<voice, voiceActive>>
    BY DEF Session!OnEchoTestReady, Session!TakeMessage, Session!serverVars
  <1>2. Moves(Head(msgq)) /\ Enters(Head(msgq)) /\ RoomAfter(Head(msgq)) = Echo
    BY <1>1 DEF Moves, Enters, RoomAfter
  <1>3. /\ cmdq' \in [1..MaxConns -> Seq(Cmds(p))]
        /\ channel' \in Rooms[p] \union {None} /\ rejoin' \in Rooms[p] \union {None}
        /\ joinParams' = channel' /\ voiceActive' \in BOOLEAN
    BY <1>1 DEF SessionInv, SessionTypes, Held
  <1>4. room[conn] = Echo /\ Out => Shown(room[conn], cmdq[conn])'
    BY <1>1, Parameters DEF Shown, Out
  <1> QED
    BY <1>1, <1>2, <1>3, <1>4, TakeStep

(* After the message that it left, the client is outside every channel. *)
LEMMA LeftStep ==
  ASSUME NEW p \in Scenarios, SessionInv(p), Session(p)!OnLeftChannel
  PROVE  SessionInv(p)'
  <1>1. /\ Session(p)!TakeMessage("left") /\ Head(msgq).msg = "left"
        /\ UNCHANGED <<cmdq, conn, retry, room, stayed, missed>>
        /\ channel' = None /\ joinParams' = None /\ rejoin' = None /\ voiceActive' = FALSE
    BY DEF Session!OnLeftChannel, Session!TakeMessage, Session!serverVars
  <1>2. Moves(Head(msgq)) /\ RoomAfter(Head(msgq)) = None
    BY <1>1 DEF Moves, RoomAfter
  <1>3. cmdq' \in [1..MaxConns -> Seq(Cmds(p))]
    BY <1>1 DEF SessionInv, SessionTypes
  <1>4. Out' /\ (room[conn] = None => Shown(room[conn], cmdq[conn])')
    BY <1>1 DEF Shown, Out
  <1> QED
    BY <1>1, <1>2, <1>3, <1>4, TakeStep

(* A channel created is asked for, and not shown before it is joined. *)
LEMMA CreatedStep ==
  ASSUME NEW p \in Scenarios, SessionInv(p), Session(p)!OnChannelCreated
  PROVE  SessionInv(p)'
  <1> DEFINE m == [cmd |-> "join", ch |-> Head(msgq).ch]
  <1>1. /\ Session(p)!TakeMessage("created") /\ Head(msgq).msg = "created"
        /\ UNCHANGED <<channel, joinParams, rejoin, voice, voiceActive, retry, room, stayed,
                       missed>>
        /\ Session(p)!SendOrDisconnect(m)
    BY DEF Session!OnChannelCreated, Session!TakeMessage, Session!serverVars
  <1>2. m \in Cmds(p)
    BY <1>1, HeadTyped, CmdRecords DEF SessionInv
  <1> HIDE DEF m
  <1>3. /\ cmdq' \in [1..MaxConns -> Seq(Cmds(p))] /\ conn' \in {0, conn}
        /\ conn' # 0 => conn # 0 /\ cmdq'[conn] = Append(cmdq[conn], m)
    BY <1>1, <1>2, Sends DEF SessionInv
  <1>4. conn' # 0 => conn' = conn /\ cmdq[conn] \in Seq(Cmds(p))
    BY <1>3, UnreadTyped DEF SessionInv
  <1>5. conn' # 0 /\ Shown(room[conn], cmdq[conn]) => Shown(room[conn], cmdq[conn])'
    BY <1>1, <1>2, <1>3, <1>4, LeavingAppend DEF Shown
  <1>6. /\ channel' \in Rooms[p] \union {None} /\ rejoin' \in Rooms[p] \union {None}
        /\ joinParams' = channel' /\ voiceActive' \in BOOLEAN /\ (Out => Out')
        /\ ~Moves(Head(msgq))
    BY <1>1 DEF SessionInv, SessionTypes, Held, Out, Moves
  <1> QED
    BY <1>1, <1>3, <1>5, <1>6, TakeStep

(* The messages that move nobody leave what is shown as it is. *)
LEMMA OtherStep ==
  ASSUME NEW p \in Scenarios, SessionInv(p), Session(p)!OnOtherMessage
  PROVE  SessionInv(p)'
  <1>1. /\ Session(p)!TakeMessage("other") /\ Head(msgq).msg = "other"
        /\ UNCHANGED <<cmdq, conn, channel, joinParams, rejoin, voice, voiceActive, retry,
                       room, stayed, missed>>
    BY DEF Session!OnOtherMessage, Session!TakeMessage, Session!serverVars
  <1>2. ~Moves(Head(msgq))
    BY <1>1 DEF Moves
  <1>3. /\ cmdq' \in [1..MaxConns -> Seq(Cmds(p))]
        /\ channel' \in Rooms[p] \union {None} /\ rejoin' \in Rooms[p] \union {None}
        /\ joinParams' = channel' /\ voiceActive' \in BOOLEAN
    BY <1>1 DEF SessionInv, SessionTypes, Held
  <1>4. /\ Shown(room[conn], cmdq[conn]) => Shown(room[conn], cmdq[conn])'
        /\ Out => Out'
    BY <1>1 DEF Shown, Out
  <1> QED
    BY <1>1, <1>2, <1>3, <1>4, TakeStep

(* The end of the stream is the last message: nothing is left in the queue *)
(* and nobody adds to it until the next connect.                           *)
LEMMA DisconnectedStep ==
  ASSUME NEW p \in Scenarios, SessionInv(p), Session(p)!OnDisconnected
  PROVE  SessionInv(p)'
  <1>1. /\ msgq # <<>> /\ Head(msgq).msg = "closed" /\ msgq' = Tail(msgq)
        /\ UNCHANGED <<link, reader, wire, room, stayed, missed, rx, cmdq>>
        /\ channel' = None /\ joinParams' = None /\ voiceActive' = FALSE
        /\ conn' = 0 /\ retry' = TRUE /\ rejoin' \in {channel, rejoin}
    BY DEF Session!OnDisconnected, Session!TakeMessage, Session!serverVars,
           Session!ChannelToRejoin, Session!NoConn
  <1>2. /\ msgq \in Seq(Queued(p)) /\ msgq' \in Seq(Queued(p))
        /\ Len(msgq') = Len(msgq) - 1 /\ Len(msgq) \in Nat \ {0} /\ Head(msgq) = msgq[1]
    BY <1>1, HeadTailProperties, EmptySeq DEF SessionInv, SessionTypes
  <1>3. 1 = Len(msgq) /\ rx \notin reader
    <2>1. 1 \in 1..Len(msgq) /\ msgq[1].msg = "closed"
      BY <1>1, <1>2
    <2> QED
      BY <2>1 DEF SessionInv, ClosedLast
  <1>4. msgq' = <<>>
    BY <1>2, <1>3, EmptySeq
  <1>5. SessionTypes(p)'
    BY <1>1, <1>2, Parameters DEF SessionInv, SessionTypes
  <1>6. Held' /\ RetryOutside'
    BY <1>1, <1>3, <1>4 DEF SessionInv, Held, RetryOutside, Out
  <1>7. ClosedLast'
    <2>1. 1..Len(msgq') = {}
      BY <1>4
    <2> QED
      BY <2>1 DEF ClosedLast
  <1>8. Follows'
    BY <1>1 DEF Follows, Online
  <1> QED
    BY <1>5, <1>6, <1>7, <1>8 DEF SessionInv

(***************************************************************************)
(* A new connection.                                                       *)
(***************************************************************************)

(* Nothing is to be read from a new connection. *)
LEMMA EmptyStream == \A r : Latest(<<>>, r) /\ \A out : Alternates(<<>>, out)
  BY DEF Latest, Alternates

(* The client starts anew, outside every channel, on both sides. *)
LEMMA ConnectedStep ==
  ASSUME NEW p \in Scenarios, SessionInv(p), NEW k \in Session(p)!Fresh,
         NEW want \in Rooms[p] \union {None}, Session(p)!Connected(k, want),
         UNCHANGED <<wire, room, stayed, missed>>,
         channel' = None, joinParams' = None, voiceActive' = FALSE, retry' = FALSE
  PROVE  SessionInv(p)'
  <1>1. /\ k \in 1..MaxConns /\ link[k] = "new" /\ k # 0
        /\ link' = [link EXCEPT ![k] = "up"]
        /\ reader' = reader \union {k}
        /\ cmdq' = [cmdq EXCEPT ![k] = Session(p)!RejoinRequest(want)]
        /\ conn' = k /\ rx' = k /\ msgq' = <<>> /\ rejoin' = None
    BY Parameters DEF Session!Fresh, Session!Connected, Session!Conns
  <1>2. Session(p)!RejoinRequest(want) \in Seq(Cmds(p))
    <2>1. CASE want = None
      BY <2>1 DEF Session!RejoinRequest
    <2>2. CASE want # None
      <3> DEFINE m == [cmd |-> "join", ch |-> want]
      <3>1. m \in Cmds(p)
        BY <2>2, CmdRecords
      <3>2. Session(p)!RejoinRequest(want) = <<m>>
        BY <2>2 DEF Session!RejoinRequest
      <3> HIDE DEF m
      <3> QED
        BY <3>1, <3>2
    <2> QED
      BY <2>1, <2>2
  <1>3. SessionTypes(p)'
    <2>1. /\ link' \in [1..MaxConns -> {"new", "up", "closed"}]
          /\ cmdq' \in [1..MaxConns -> Seq(Cmds(p))]
      BY <1>1, <1>2 DEF SessionInv, SessionTypes
    <2>2. /\ wire' \in [1..MaxConns -> Seq(Msgs(p))] /\ msgq' \in Seq(Queued(p))
          /\ room' \in [1..MaxConns -> Rooms[p] \union {Echo, None}]
      BY <1>1 DEF SessionInv, SessionTypes
    <2>3. conn' \in 0..MaxConns
      BY <1>1, Parameters
    <2> QED
      BY <1>1, <2>1, <2>2, <2>3 DEF SessionTypes
  <1>4. Held'
    BY <1>1 DEF SessionInv, SessionTypes, Held
  <1>5. ClosedLast' /\ RetryOutside'
    BY <1>1 DEF ClosedLast, RetryOutside
  <1>6. Follows'
    <2>1. wire'[k] = <<>> /\ room'[k] = None
      BY <1>1 DEF SessionInv, Held
    <2>2. msgq' \o wire'[conn'] = <<>>
      BY <1>1, <2>1
    <2>3. Shown(room[conn], cmdq[conn])'
      BY <1>1, <2>1 DEF Shown
    <2> QED
      BY <2>2, <2>3, EmptyStream DEF Follows, Unread
  <1> QED
    BY <1>3, <1>4, <1>5, <1>6 DEF SessionInv

(* The event loop's own attempt finds the client outside, made or refused. *)
LEMMA AutoStep ==
  ASSUME NEW p \in Scenarios, SessionInv(p), Session(p)!AutoReconnect
  PROVE  SessionInv(p)'
  <1>1. /\ retry /\ UNCHANGED <<wire, room, stayed, missed, channel, joinParams,
                                voiceActive>>
        /\ channel = None /\ voiceActive = FALSE /\ joinParams = None
        /\ rejoin \in Rooms[p] \union {None}
    BY DEF Session!AutoReconnect, Session!serverVars, SessionInv, RetryOutside, Out,
           SessionTypes, Held
  <1>2. ASSUME NEW k \in Session(p)!Fresh, Session(p)!Connected(k, rejoin), retry' = FALSE
        PROVE  SessionInv(p)'
    BY <1>1, <1>2, ConnectedStep
  <1>3. CASE UNCHANGED <<link, reader, cmdq, conn, rx, msgq, rejoin>>
    <2>1. SessionTypes(p)' /\ Held'
      BY <1>1, <1>3 DEF SessionInv, SessionTypes, Held
    <2>2. ClosedLast' /\ RetryOutside'
      BY <1>1, <1>3 DEF SessionInv, ClosedLast, RetryOutside, Out
    <2>3. Follows'
      <3> SUFFICES ASSUME Online' PROVE Follows'
        BY DEF Follows
      <3>1. Online
        BY <1>1, <1>3 DEF Online
      <3> QED
        BY <1>1, <1>3, <3>1 DEF SessionInv, Held, RetryOutside, Online
    <2> QED
      BY <2>1, <2>2, <2>3 DEF SessionInv
  <1> QED
    BY <1>2, <1>3 DEF Session!AutoReconnect

(* A refused reconnect leaves the client without a connection. *)
LEMMA ReconnectStep ==
  ASSUME NEW p \in Scenarios, SessionInv(p), NEW want \in Rooms[p] \union {None},
         Session(p)!DoReconnect(want), UNCHANGED <<wire, room, stayed, missed>>
  PROVE  SessionInv(p)'
  <1>1. /\ channel' = None /\ joinParams' = None /\ voiceActive' = FALSE /\ retry' = FALSE
    BY DEF Session!DoReconnect
  <1>2. ASSUME NEW k \in Session(p)!Fresh, Session(p)!Connected(k, want)
        PROVE  SessionInv(p)'
    BY <1>1, <1>2, ConnectedStep
  <1>3. CASE /\ conn' = 0 /\ rx' = 0 /\ msgq' = <<>> /\ rejoin' = want
             /\ UNCHANGED <<link, reader, cmdq>>
    <2>1. SessionTypes(p)'
      <3>1. conn' \in 0..MaxConns /\ msgq' \in Seq(Queued(p))
        BY <1>3, Parameters
      <3> QED
        BY <1>1, <1>3, <3>1 DEF SessionInv, SessionTypes
    <2>2. Held' /\ ClosedLast' /\ RetryOutside' /\ Follows'
      BY <1>1, <1>3 DEF SessionInv, Held, ClosedLast, RetryOutside, Follows, Online
    <2> QED
      BY <2>1, <2>2 DEF SessionInv
  <1> QED
    BY <1>2, <1>3 DEF Session!DoReconnect, Session!NoConn

(* /server notes the channel, and connects when there is no connection. *)
LEMMA ServerStep ==
  ASSUME NEW p \in Scenarios, SessionInv(p), NEW r \in Rooms[p], Session(p)!CmdServer(r)
  PROVE  SessionInv(p)'
  <1>1. CASE Session(p)!DoReconnect(r)
    BY <1>1, ReconnectStep DEF Session!CmdServer, Session!serverVars
  <1>2. CASE /\ rejoin' = r
             /\ UNCHANGED <<link, cmdq, reader, conn, rx, msgq, channel, joinParams,
                            voiceActive, retry>>
    <2>1. UNCHANGED <<wire, room, stayed, missed, voice>>
      BY DEF Session!CmdServer, Session!serverVars
    <2>2. /\ cmdq' \in [1..MaxConns -> Seq(Cmds(p))]
          /\ channel' \in Rooms[p] \union {None} /\ rejoin' \in Rooms[p] \union {None}
          /\ joinParams' = channel' /\ voiceActive' \in BOOLEAN /\ (Out => Out')
      BY <1>2 DEF SessionInv, SessionTypes, Held, Out
    <2>3. Shown(room[conn], cmdq[conn]) => Shown(room[conn], cmdq[conn])'
      BY <1>2, <2>1 DEF Shown
    <2> QED
      BY <1>2, <2>1, <2>2, <2>3, LocalStep
  <1> QED
    BY <1>1, <1>2 DEF Session!CmdServer

(***************************************************************************)
(* The tasks and the server.                                               *)
(***************************************************************************)

(* A message handed from the wire to the queue keeps its place in the stream; *)
(* a message that finds no room is the last the reader handles.            *)
LEMMA ReaderStep ==
  ASSUME NEW p \in Scenarios, SessionInv(p), NEW k \in 1..MaxConns, Session(p)!ReaderTask(k)
  PROVE  SessionInv(p)'
  <1> DEFINE w == wire[k]
  <1>1. /\ k \in reader /\ w # <<>> /\ wire' = [wire EXCEPT ![k] = Tail(w)]
        /\ UNCHANGED <<link, cmdq, room, stayed, missed, conn, rx, channel, joinParams,
                       rejoin, voice, voiceActive, retry>>
        /\ \/ rx = k /\ msgq' = Append(msgq, Head(w)) /\ reader' = reader
           \/ msgq' = msgq /\ reader' = reader \ {k}
    BY DEF Session!ReaderTask, Session!serverVars, Session!QueueMessage, Session!HasRoom
  <1>2. /\ w \in Seq(Msgs(p)) /\ w \in Seq(Queued(p)) /\ Tail(w) \in Seq(Msgs(p))
        /\ Head(w) \in Msgs(p) /\ Head(w) \in Queued(p) /\ Head(w).msg # "closed"
        /\ msgq \in Seq(Queued(p)) /\ link[k] # "new"
    <2>1. w \in Seq(Msgs(p)) /\ msgq \in Seq(Queued(p)) /\ link[k] # "new"
      BY <1>1 DEF SessionInv, SessionTypes, Held
    <2>2. Msgs(p) \subseteq Queued(p) /\ \A m \in Msgs(p) : m.msg # "closed"
      BY MsgRecords
    <2> HIDE DEF w
    <2>3. Head(w) \in Msgs(p) /\ Tail(w) \in Seq(Msgs(p)) /\ w \in Seq(Queued(p))
      BY <1>1, <2>1, <2>2, HeadTailProperties, SeqMonotonic
    <2> QED
      BY <2>1, <2>2, <2>3
  <1>3. SessionTypes(p)'
    <2>1. msgq' \in Seq(Queued(p))
      BY <1>1, <1>2, AppendProperties
    <2>2. wire' \in [1..MaxConns -> Seq(Msgs(p))]
      BY <1>1, <1>2 DEF SessionInv, SessionTypes
    <2> QED
      BY <1>1, <2>1, <2>2 DEF SessionInv, SessionTypes
  <1>4. Held'
    BY <1>1, <1>2 DEF SessionInv, SessionTypes, Held
  <1>5. CASE rx = k /\ msgq' = Append(msgq, Head(w)) /\ reader' = reader
    <2> HIDE DEF w
    <2>1. ClosedLast'
      <3>1. /\ Len(msgq') = Len(msgq) + 1 /\ Len(msgq) \in Nat
            /\ \A i \in 1..Len(msgq) : msgq'[i] = msgq[i]
            /\ msgq'[Len(msgq) + 1] = Head(w)
        BY <1>2, <1>5, AppendProperties, LenProperties
      <3>2. \A i \in 1..Len(msgq) : msgq[i].msg # "closed"
        BY <1>1, <1>5 DEF SessionInv, ClosedLast
      <3>3. \A i \in 1..Len(msgq') : msgq'[i].msg # "closed"
        BY <1>2, <3>1, <3>2
      <3> QED
        BY <3>3 DEF ClosedLast
    <2>2. RetryOutside'
      BY <1>1, <1>5 DEF SessionInv, RetryOutside
    <2>3. Follows'
      <3> SUFFICES ASSUME Online' PROVE Follows'
        BY DEF Follows
      <3>1. Online /\ conn = k /\ conn' = conn /\ room' = room
        BY <1>1, <1>5 DEF Online, SessionInv, Held
      <3>2. msgq' \o wire'[conn'] = Append(msgq, Head(w)) \o Tail(w)
        BY <1>1, <1>5, <3>1 DEF SessionInv, SessionTypes
      <3>3. Append(msgq, Head(w)) \o Tail(w) = msgq \o w
        BY <1>1, <1>2, Handed
      <3>4. Unread' = Unread /\ Out' = Out
        BY <1>1, <3>1, <3>2, <3>3 DEF Unread, Out, w
      <3>5. Shown(room[conn], cmdq[conn])' = Shown(room[conn], cmdq[conn])
        BY <1>1 DEF Shown
      <3> QED
        BY <3>1, <3>4, <3>5 DEF SessionInv, Follows
    <2> QED
      BY <1>3, <1>4, <2>1, <2>2, <2>3 DEF SessionInv
  <1>6. CASE msgq' = msgq /\ reader' = reader \ {k}
    <2>1. ClosedLast' /\ RetryOutside'
      BY <1>1, <1>6 DEF SessionInv, ClosedLast, RetryOutside, Out
    <2>2. Follows'
      <3> SUFFICES ASSUME Online' PROVE Follows'
        BY DEF Follows
      <3>1. Online /\ conn # k /\ conn' = conn /\ room' = room
        BY <1>1, <1>6 DEF Online
      <3>2. wire'[conn'] = wire[conn]
        BY <1>1, <3>1, UnreadTyped DEF SessionInv, SessionTypes, Online
      <3>3. Unread' = Unread /\ Out' = Out
        BY <1>1, <1>6, <3>2 DEF Unread, Out
      <3>4. Shown(room[conn], cmdq[conn])' = Shown(room[conn], cmdq[conn])
        BY <1>1 DEF Shown
      <3> QED
        BY <3>1, <3>3, <3>4 DEF SessionInv, Follows
    <2> QED
      BY <1>3, <1>4, <2>1, <2>2 DEF SessionInv
  <1> QED
    BY <1>1, <1>5, <1>6

(* The reader that queues the marker ends, so that nothing follows it. *)
LEMMA EofStep ==
  ASSUME NEW p \in Scenarios, SessionInv(p), NEW k \in 1..MaxConns, Session(p)!ReaderEof(k)
  PROVE  SessionInv(p)'
  <1> DEFINE m == [msg |-> "closed"]
  <1>1. /\ k \in reader /\ link[k] = "closed" /\ reader' = reader \ {k}
        /\ UNCHANGED <<link, cmdq, wire, room, stayed, missed, conn, rx, channel,
                       joinParams, rejoin, voice, voiceActive, retry>>
        /\ \/ rx = k /\ msgq' = Append(msgq, m)
           \/ msgq' = msgq
    BY DEF Session!ReaderEof, Session!serverVars, Session!AfterEof, Session!HasRoom
  <1>2. m \in Queued(p) /\ msgq \in Seq(Queued(p))
    BY MsgRecords DEF SessionInv, SessionTypes
  <1> HIDE DEF m
  <1>3. SessionTypes(p)'
    <2>1. msgq' \in Seq(Queued(p))
      BY <1>1, <1>2, AppendProperties
    <2> QED
      BY <1>1, <2>1 DEF SessionInv, SessionTypes
  <1>4. Held'
    BY <1>1 DEF SessionInv, Held
  <1>5. ClosedLast' /\ RetryOutside'
    <2>1. CASE rx = k /\ msgq' = Append(msgq, m)
      <3>1. /\ Len(msgq') = Len(msgq) + 1 /\ Len(msgq) \in Nat
            /\ \A i \in 1..Len(msgq) : msgq'[i] = msgq[i]
        BY <1>2, <2>1, AppendProperties, LenProperties
      <3>2. \A i \in 1..Len(msgq) : msgq[i].msg # "closed"
        BY <1>1, <2>1 DEF SessionInv, ClosedLast
      <3>3. \A i \in 1..Len(msgq') : i \in 1..Len(msgq) \/ i = Len(msgq')
        BY <3>1
      <3>4. \A i \in 1..Len(msgq') : msgq'[i].msg = "closed" => i = Len(msgq')
        BY <3>1, <3>2, <3>3
      <3> QED
        BY <1>1, <2>1, <3>4 DEF SessionInv, ClosedLast, RetryOutside
    <2>2. CASE msgq' = msgq
      BY <1>1, <2>2 DEF SessionInv, ClosedLast, RetryOutside, Out
    <2> QED
      BY <1>1, <2>1, <2>2
  <1>6. Follows'
    <2> SUFFICES ASSUME Online' PROVE Follows'
      BY DEF Follows
    <2>1. Online /\ conn # k /\ conn' = conn /\ room' = room
      BY <1>1 DEF Online
    <2>2. rx = conn
      BY <2>1 DEF SessionInv, Held, Online
    <2>3. Unread' = Unread /\ Out' = Out
      BY <1>1, <2>1, <2>2 DEF Unread, Out
    <2>4. Shown(room[conn], cmdq[conn])' = Shown(room[conn], cmdq[conn])
      BY <1>1 DEF Shown
    <2> QED
      BY <2>1, <2>3, <2>4 DEF SessionInv, Follows
  <1> QED
    BY <1>3, <1>4, <1>5, <1>6 DEF SessionInv

(* A connection that closes takes the client out of the server's channel. *)
LEMMA ClosingStep ==
  ASSUME NEW p \in Scenarios, SessionInv(p), NEW k \in 1..MaxConns,
         link' = [link EXCEPT ![k] = "closed"], room' = [room EXCEPT ![k] = None],
         UNCHANGED <<stayed, missed, cmdq, reader, wire, conn, rx, msgq, channel,
                     joinParams, rejoin, voice, voiceActive, retry>>
  PROVE  SessionInv(p)'
  <1>1. SessionTypes(p)'
    BY DEF SessionInv, SessionTypes
  <1>2. Held' /\ ClosedLast' /\ RetryOutside'
    BY DEF SessionInv, SessionTypes, Held, ClosedLast, RetryOutside, Out
  <1>3. Follows'
    <2> SUFFICES ASSUME Online' PROVE Follows'
      BY DEF Follows
    <2>1. /\ Online /\ conn # k /\ conn' = conn
          /\ room'[conn'] = room[conn] /\ cmdq'[conn'] = cmdq[conn]
      <3>1. conn # 0 /\ conn' = conn /\ link'[conn] = "up" /\ conn \in reader
        BY DEF Online
      <3>2. conn \in 1..MaxConns
        BY <3>1, UnreadTyped DEF SessionInv
      <3> QED
        BY <3>1, <3>2 DEF SessionInv, SessionTypes, Online
    <2>2. Unread' = Unread /\ Out' = Out
      BY DEF Unread, Out
    <2>3. Shown(room[conn], cmdq[conn])' = Shown(room[conn], cmdq[conn])
      BY <2>1 DEF Shown
    <2> QED
      BY <2>1, <2>2, <2>3 DEF SessionInv, Follows
  <1> QED
    BY <1>1, <1>2, <1>3 DEF SessionInv

(* A step that touches nothing the invariant speaks of. *)
LEMMA QuietStep ==
  ASSUME NEW p \in Scenarios, SessionInv(p),
         UNCHANGED <<link, cmdq, reader, wire, room, stayed, missed, conn, rx, msgq,
                     channel, joinParams, rejoin, voice, voiceActive, retry>>
  PROVE  SessionInv(p)'
  <1>1. SessionTypes(p)' /\ Held' /\ ClosedLast' /\ RetryOutside'
    BY DEF SessionInv, SessionTypes, Held, ClosedLast, RetryOutside, Out
  <1>2. Unread' = Unread /\ Out' = Out /\ Online' = Online
    BY DEF Unread, Out, Online
  <1>3. Shown(room[conn], cmdq[conn])' = Shown(room[conn], cmdq[conn])
    BY DEF Shown
  <1>4. Follows'
    BY <1>2, <1>3 DEF SessionInv, Follows
  <1> QED
    BY <1>1, <1>4 DEF SessionInv

(* A leave stays queued until it is handled. *)
LEMMA LeavingTail ==
  ASSUME NEW M, NEW q \in Seq(M), q # <<>>, Leaving(q), Head(q).cmd # "leave"
  PROVE  Leaving(Tail(q))
  <1>1. /\ Len(Tail(q)) = Len(q) - 1 /\ Len(q) \in Nat /\ Head(q) = q[1]
        /\ \A i \in 1..Len(Tail(q)) : Tail(q)[i] = q[i + 1]
    BY HeadTailProperties, LenProperties
  <1>2. PICK i \in 1..Len(q) : q[i].cmd = "leave"
    BY DEF Leaving
  <1>3. i - 1 \in 1..Len(Tail(q)) /\ (i - 1) + 1 = i
    BY <1>1, <1>2
  <1>4. Tail(q)[i - 1].cmd = "leave"
    BY <1>1, <1>2, <1>3
  <1> QED
    BY <1>3, <1>4 DEF Leaving

(* The answer m to a command of connection k says where the server has the *)
(* client; it enters a channel from none, and a leave is refused or finds  *)
(* the client outside when it moves nobody.  It is at the end of the wire, *)
(* or it was dropped, and then, if it moves the client, it is missed.      *)
Tells(p, k, m) ==
    /\ room' = [room EXCEPT ![k] = IF Moves(m) THEN RoomAfter(m) ELSE room[k]]
    /\ \/ wire' = [wire EXCEPT ![k] = Append(@, m)] /\ missed' = missed
       \/ wire' = wire /\ missed' = IF Moves(m) THEN missed \union {k} ELSE missed
    /\ stayed' \ {k} = stayed \ {k}
    /\ ~Moves(m) => stayed \subseteq stayed'
    /\ Moves(m) => RoomAfter(m) \in Rooms[p] \union {Echo, None}
    /\ Enters(m) => room[k] = None
    /\ ~Moves(m) /\ Head(cmdq[k]).cmd = "leave" => room[k] = None \/ k \in stayed'

(* Every command that is handled has such an answer. *)
LEMMA Answering ==
  ASSUME NEW p \in Scenarios, SessionTypes(p), NEW k \in 1..MaxConns,
         Session(p)!ServerHandles(k)
  PROVE  \E m \in Msgs(p) : Tells(p, k, m)
  <1> DEFINE c == Head(cmdq[k])
  <1>1. c \in Cmds(p) /\ (c.cmd \in {"join", "create"} => c.ch \in Rooms[p])
    BY CmdRecords, HeadTailProperties DEF SessionTypes, Session!ServerHandles
  <1>2. Session(p)!CarriedOut(k) \/ Session(p)!Refused(k)
    BY DEF Session!ServerHandles
  <1>3. CASE /\ c.cmd = "join" /\ room[k] = None
             /\ Session(p)!Answer(k, c.ch, [msg |-> "joined", ch |-> c.ch])
             /\ UNCHANGED stayed
    <2> DEFINE m == [msg |-> "joined", ch |-> c.ch]
    <2>1. m \in Msgs(p) /\ c.ch \in Rooms[p] /\ c.ch # room[k]
      BY <1>1, <1>3, MsgRecords, Parameters
    <2>2. Moves(m) /\ Enters(m) /\ RoomAfter(m) = c.ch
      BY DEF Moves, Enters, RoomAfter
    <2>3. Session(p)!Answer(k, RoomAfter(m), m)
      BY <1>3, <2>2
    <2> HIDE DEF m
    <2> QED
      BY <1>3, <2>1, <2>2, <2>3 DEF Tells, Session!Answer
  <1>4. CASE /\ c.cmd = "echo" /\ room[k] = None
             /\ Session(p)!Answer(k, Echo, [msg |-> "echoready"])
             /\ UNCHANGED stayed
    <2> DEFINE m == [msg |-> "echoready"]
    <2>1. m \in Msgs(p) /\ Echo # room[k]
      BY <1>4, MsgRecords, Parameters
    <2>2. Moves(m) /\ Enters(m) /\ RoomAfter(m) = Echo
      BY DEF Moves, Enters, RoomAfter
    <2>3. Session(p)!Answer(k, RoomAfter(m), m)
      BY <1>4, <2>2
    <2> HIDE DEF m
    <2> QED
      BY <1>4, <2>1, <2>2, <2>3 DEF Tells, Session!Answer
  <1>5. CASE /\ room[k] # None
             /\ Session(p)!Answer(k, None, [msg |-> "left"])
             /\ stayed' = stayed \ {k}
    <2> DEFINE m == [msg |-> "left"]
    <2>1. m \in Msgs(p)
      BY MsgRecords
    <2>2. Moves(m) /\ ~Enters(m) /\ RoomAfter(m) = None
      BY DEF Moves, Enters, RoomAfter
    <2>3. Session(p)!Answer(k, RoomAfter(m), m)
      BY <1>5, <2>2
    <2> HIDE DEF m
    <2> QED
      BY <1>5, <2>1, <2>2, <2>3 DEF Tells, Session!Answer
  <1>6. CASE /\ c.cmd = "create"
             /\ Session(p)!Answer(k, room[k], [msg |-> "created", ch |-> c.ch])
             /\ UNCHANGED stayed
    <2> DEFINE m == [msg |-> "created", ch |-> c.ch]
    <2>1. m \in Msgs(p)
      BY <1>1, <1>6, MsgRecords
    <2>2. ~Moves(m) /\ ~Enters(m)
      BY DEF Moves, Enters
    <2>3. Session(p)!Answer(k, room[k], m) /\ Head(cmdq[k]).cmd # "leave"
      BY <1>6
    <2> HIDE DEF m, c
    <2> QED
      BY <1>6, <2>1, <2>2, <2>3 DEF Tells, Session!Answer
  <1>7. CASE Session(p)!Refused(k)
    <2> DEFINE m == [msg |-> "other"]
    <2>1. m \in Msgs(p)
      BY MsgRecords
    <2>2. ~Moves(m) /\ ~Enters(m)
      BY DEF Moves, Enters
    <2>3. /\ Session(p)!Answer(k, room[k], m)
          /\ stayed' = IF Head(cmdq[k]).cmd = "leave" /\ room[k] # None
                       THEN stayed \union {k} ELSE stayed
      BY <1>7 DEF Session!Refused
    <2> HIDE DEF m, c
    <2> QED
      BY <2>1, <2>2, <2>3 DEF Tells, Session!Answer
  <1> QED
    BY <1>2, <1>3, <1>4, <1>5, <1>6, <1>7 DEF Session!CarriedOut

(* The answer to a command follows everything the client has still to      *)
(* read, unless it was dropped.                                            *)
LEMMA ServerHandlesStep ==
  ASSUME NEW p \in Scenarios, SessionInv(p), NEW k \in 1..MaxConns,
         Session(p)!ServerHandles(k)
  PROVE  SessionInv(p)'
  <1>1. /\ link[k] = "up" /\ cmdq[k] # <<>> /\ cmdq' = [cmdq EXCEPT ![k] = Tail(@)]
        /\ UNCHANGED <<link, reader, conn, rx, msgq, channel, joinParams, rejoin, voice,
                       voiceActive, retry>>
    BY DEF Session!ServerHandles, Session!loopVars
  <1>2. PICK m \in Msgs(p) : Tells(p, k, m)
    BY Answering DEF SessionInv
  <1>3. /\ m \in Queued(p) /\ wire[k] \in Seq(Msgs(p)) /\ cmdq[k] \in Seq(Cmds(p))
        /\ room[k] \in Rooms[p] \union {Echo, None}
    BY MsgRecords DEF SessionInv, SessionTypes
  <1>4. SessionTypes(p)'
    <2>1. Append(wire[k], m) \in Seq(Msgs(p)) /\ Tail(cmdq[k]) \in Seq(Cmds(p))
      BY <1>1, <1>3, AppendProperties, HeadTailProperties
    <2>2. cmdq' \in [1..MaxConns -> Seq(Cmds(p))]
      BY <1>1, <2>1 DEF SessionInv, SessionTypes
    <2>3. wire' \in [1..MaxConns -> Seq(Msgs(p))]
      BY <1>2, <2>1 DEF SessionInv, SessionTypes, Tells
    <2>4. room' \in [1..MaxConns -> Rooms[p] \union {Echo, None}]
      BY <1>2, <1>3 DEF SessionInv, SessionTypes, Tells
    <2> QED
      BY <1>1, <2>2, <2>3, <2>4 DEF SessionInv, SessionTypes
  <1>5. Held'
    BY <1>1, <1>2 DEF SessionInv, SessionTypes, Held, Tells
  <1>6. ClosedLast' /\ RetryOutside'
    BY <1>1 DEF SessionInv, ClosedLast, RetryOutside, Out
  <1> SUFFICES ASSUME Online' PROVE Follows'
    BY <1>4, <1>5, <1>6 DEF SessionInv, Follows
  <1>7. Online /\ conn' = conn /\ conn \in 1..MaxConns
    <2>1. Online /\ conn' = conn
      BY <1>1, <1>2 DEF Online, Tells
    <2> QED
      BY <2>1, UnreadTyped DEF SessionInv, Online
  <1>8. /\ Latest(Unread, room[conn]) /\ Alternates(Unread, Out)
        /\ Settled(Unread) => Shown(room[conn], cmdq[conn])
        /\ Out \in BOOLEAN /\ Out' = Out
    BY <1>1, <1>7 DEF SessionInv, Follows, Out
  <1>9. CASE conn # k
    <2>1. wire'[conn'] = wire[conn] /\ room'[conn'] = room[conn] /\ cmdq'[conn'] = cmdq[conn]
      BY <1>1, <1>2, <1>7, <1>9 DEF SessionInv, SessionTypes, Tells
    <2>2. Unread' = Unread
      BY <1>1, <2>1 DEF Unread
    <2>3. Shown(room[conn], cmdq[conn])' = Shown(room[conn], cmdq[conn])
      <3>1. conn' \in stayed' <=> conn \in stayed
        BY <1>2, <1>7, <1>9 DEF Tells
      <3> QED
        BY <1>1, <2>1, <3>1 DEF Shown
    <2> QED
      BY <1>8, <2>1, <2>2, <2>3 DEF Follows
  <1>10. CASE conn = k
    <2>1. /\ cmdq'[conn'] = Tail(cmdq[conn])
          /\ room'[conn'] = IF Moves(m) THEN RoomAfter(m) ELSE room[conn]
      BY <1>1, <1>2, <1>7, <1>10 DEF SessionInv, SessionTypes, Tells
    <2>2. ~Moves(m) /\ Shown(room[conn], cmdq[conn]) => Shown(room[conn], cmdq[conn])'
      <3> SUFFICES ASSUME ~Moves(m), Shown(room[conn], cmdq[conn])
                   PROVE  Shown(room[conn], cmdq[conn])'
        OBVIOUS
      <3>1. /\ Leaving(cmdq[conn]) =>
                  Leaving(Tail(cmdq[conn])) \/ room[conn] = None \/ conn \in stayed'
            /\ conn \in stayed => conn \in stayed'
        BY <1>1, <1>2, <1>3, <1>10, LeavingTail DEF Tells
      <3> QED
        BY <1>1, <1>7, <2>1, <3>1 DEF Shown
    <2>3. CASE wire' = [wire EXCEPT ![k] = Append(@, m)]
      <3>1. /\ Unread \in Seq(Queued(p)) /\ wire[conn] \in Seq(Queued(p))
            /\ msgq \in Seq(Queued(p))
        BY <1>7, UnreadTyped DEF SessionInv, SessionTypes, Online
      <3>2. wire'[conn'] = Append(wire[conn], m)
        BY <1>7, <1>10, <2>3 DEF SessionInv, SessionTypes
      <3>3. Unread' = Append(Unread, m)
        <4>1. \A q, w \in Seq(Queued(p)) : q \o Append(w, m) = Append(q \o w, m)
          BY <1>3, Answered
        <4>2. msgq \o Append(wire[conn], m) = Append(msgq \o wire[conn], m)
          BY <3>1, <4>1, Zenon
        <4>3. msgq' = msgq
          BY <1>1
        <4> QED
          BY <3>2, <4>2, <4>3, Zenon DEF Unread
      <3>4. Enters(m) /\ Settled(Unread) => Out
        BY <1>2, <1>8, <1>10 DEF Shown, Out, Tells
      <3>5. ASSUME Enters(m), NEW i \in 1..Len(Unread), Moves(Unread[i]),
                   RoomAfter(Unread[i]) = room[conn]
            PROVE  Unread[i].msg = "left"
        <4>1. Unread[i] \in Queued(p) /\ room[conn] = None
          BY <1>2, <1>10, <3>1, <3>5, ElementOfSeq DEF Tells
        <4> QED
          BY <3>5, <4>1, MsgRecords, Parameters DEF Moves, RoomAfter
      <3>6. /\ Latest(Append(Unread, m), IF Moves(m) THEN RoomAfter(m) ELSE room[conn])
            /\ Alternates(Append(Unread, m), Out)
            /\ Settled(Append(Unread, m)) => Settled(Unread) /\ ~Moves(m)
        BY <1>3, <1>8, <3>1, <3>4, <3>5, AddLast
      <3>7. Settled(Append(Unread, m)) => Shown(room[conn], cmdq[conn])'
        BY <1>8, <2>2, <3>6
      <3> QED
        BY <1>8, <2>1, <3>3, <3>6, <3>7 DEF Follows
    <2>4. CASE wire' = wire
      <3>1. CASE wire' = [wire EXCEPT ![k] = Append(@, m)]
        BY <2>3, <3>1
      <3>2. CASE missed' = IF Moves(m) THEN missed \union {k} ELSE missed
        <4>1. ~Moves(m)
          BY <1>7, <1>10, <3>2 DEF Online
        <4>2. Unread' = Unread /\ room'[conn'] = room[conn]
          BY <1>1, <1>7, <2>1, <2>4, <4>1 DEF Unread
        <4> QED
          BY <1>8, <2>2, <4>1, <4>2 DEF Follows
      <3> QED
        BY <1>2, <3>1, <3>2 DEF Tells
    <2> QED
      BY <1>2, <2>3, <2>4 DEF Tells
  <1> QED
    BY <1>9, <1>10

(***************************************************************************)
(* The session.                                                            *)
(***************************************************************************)

(* The client starts outside every channel, with nothing on its way. *)
LEMMA SessionInit ==
  ASSUME NEW p \in Scenarios, Session(p)!Init
  PROVE  SessionInv(p)
  <1>1. /\ link \in [1..MaxConns -> {"new", "up", "closed"}]
        /\ conn \in 0..MaxConns /\ rx = conn
    BY Parameters DEF Session!Init, Session!Conns, Session!NoConn
  <1>2. /\ cmdq = [k \in 1..MaxConns |-> <<>>] /\ wire = [k \in 1..MaxConns |-> <<>>]
        /\ msgq = <<>> /\ room = [k \in 1..MaxConns |-> None]
        /\ channel = None /\ joinParams = None /\ rejoin = None /\ voiceActive = FALSE
        /\ retry = FALSE
    BY DEF Session!Init, Session!Conns
  <1>3. SessionTypes(p)
    <2>1. /\ cmdq \in [1..MaxConns -> Seq(Cmds(p))] /\ wire \in [1..MaxConns -> Seq(Msgs(p))]
      BY <1>2
    <2>2. msgq \in Seq(Queued(p)) /\ room \in [1..MaxConns -> Rooms[p] \union {Echo, None}]
      BY <1>2
    <2> QED
      BY <1>1, <1>2, <2>1, <2>2 DEF SessionTypes
  <1>4. Held /\ RetryOutside
    BY <1>1, <1>2 DEF Held, RetryOutside
  <1>5. ClosedLast
    <2>1. 1..Len(msgq) = {}
      BY <1>2
    <2> QED
      BY <2>1 DEF ClosedLast
  <1>6. Follows
    <2> SUFFICES ASSUME Online PROVE Follows
      BY DEF Follows
    <2>1. conn \in 1..MaxConns
      BY <1>3, UnreadTyped DEF Online
    <2>2. Unread = <<>> /\ room[conn] = None
      BY <1>2, <2>1 DEF Unread
    <2> QED
      BY <1>2, <2>2, EmptyStream DEF Follows, Shown
  <1> QED
    BY <1>3, <1>4, <1>5, <1>6 DEF SessionInv

(* Every step of a session keeps its invariant. *)
LEMMA SessionStep ==
  ASSUME NEW p \in Scenarios, SessionInv(p), Session(p)!Next
  PROVE  SessionInv(p)'
  <1>1. CASE Session(p)!EventLoop
    BY <1>1, JoinedStep, EchoReadyStep, LeftStep, CreatedStep, OtherStep, DisconnectedStep,
       DeadlineStep, AutoStep DEF Session!EventLoop
  <1>2. CASE Session(p)!User
    <2>1. ASSUME NEW r \in Rooms[p],
                 \/ Session(p)!CmdSend("join", [cmd |-> "join", ch |-> r])
                 \/ Session(p)!CmdSend("create", [cmd |-> "create", ch |-> r])
                 \/ Session(p)!CmdServer(r)
          PROVE  SessionInv(p)'
      BY <2>1, CmdRecords, SendStep, ServerStep
    <2>2. CASE Session(p)!CmdSend("say", [cmd |-> "say"]) \/ Session(p)!CmdEchoTest
      BY <2>2, CmdRecords, SendStep DEF Session!CmdEchoTest
    <2>3. CASE Session(p)!CmdReconnect
      <3>1. /\ Session(p)!DoReconnect(rejoin) /\ UNCHANGED <<wire, room, stayed, missed>>
            /\ rejoin \in Rooms[p] \union {None}
        BY <2>3 DEF Session!CmdReconnect, Session!serverVars, SessionInv, SessionTypes
      <3> QED
        BY <3>1, ReconnectStep
    <2> QED
      BY <1>2, <2>1, <2>2, <2>3, LeaveStep, RestartStep DEF Session!User
  <1>3. ASSUME NEW k \in 1..MaxConns,
               Session(p)!Network(k) \/ Session(p)!Heartbeat(k) \/ Session(p)!LinkLost(k)
        PROVE  SessionInv(p)'
    <2>1. CASE Session(p)!SocketDropped(k) \/ Session(p)!IdleTimeout(k) \/ Session(p)!LinkLost(k)
      <3>1. /\ link' = [link EXCEPT ![k] = "closed"] /\ room' = [room EXCEPT ![k] = None]
            /\ UNCHANGED <<stayed, missed, cmdq, reader, wire, conn, rx, msgq, channel,
                           joinParams, rejoin, voice, voiceActive, retry>>
        BY <2>1 DEF Session!SocketDropped, Session!IdleTimeout, Session!LinkLost,
                    Session!loopVars
      <3> QED
        BY <3>1, ClosingStep
    <2>2. CASE Session(p)!Heartbeat(k)
      <3>1. UNCHANGED <<link, cmdq, reader, wire, room, stayed, missed, conn, rx, msgq,
                        channel, joinParams, rejoin, voice, voiceActive, retry>>
        BY <2>2 DEF Session!Heartbeat, Session!serverVars, Session!loopVars
      <3> QED
        BY <3>1, QuietStep
    <2> QED
      BY <1>3, <2>1, <2>2, ReaderStep, EofStep, ServerHandlesStep DEF Session!Network
  <1> QED
    BY <1>1, <1>2, <1>3 DEF Session!Next, Session!Conns

(* Whatever the user types, whatever the server refuses, in whatever order *)
(* the answers come and however often the connection is lost, in every     *)
(* scenario: once nothing is on its way, the channel shown and the channel *)
(* the microphone streams to are the one the server has the client in;     *)
(* only a client whose leave was refused shows none while it is in one.    *)
THEOREM RoomsAgree == ConnectionSpec => []RoomAgreement
  <1> DEFINE Inv == \A p \in Scenarios : part = p => SessionInv(p)
  <1>1. ConnectionInit => Inv
    <2> SUFFICES ASSUME ConnectionInit, NEW p \in Scenarios, part = p PROVE SessionInv(p)
      OBVIOUS
    <2>1. Session(p)!Init
      BY DEF ConnectionInit, Scenarios
    <2> QED
      BY <2>1, SessionInit
  <1>2. Inv /\ [ConnectionNext]_allVars => Inv'
    <2> SUFFICES ASSUME Inv, [ConnectionNext]_allVars, NEW p \in Scenarios, part' = p
                 PROVE  SessionInv(p)'
      OBVIOUS
    <2>1. part = p /\ SessionInv(p)
      BY DEF ConnectionNext, allVars
    <2>2. CASE Session(p)!Next
      BY <2>1, <2>2, SessionStep
    <2>3. CASE UNCHANGED sessionVars
      BY <2>1, <2>3, QuietStep DEF sessionVars
    <2> QED
      BY <2>1, <2>2, <2>3 DEF ConnectionNext, allVars
  <1>3. Inv => RoomAgreement
    <2> SUFFICES ASSUME Inv, NEW p \in Scenarios, part = p, Session(p)!Quiet,
                        conn \notin missed
                 PROVE  /\ \/ channel = room[conn]
                           \/ channel = None /\ (room[conn] = Echo \/ conn \in stayed)
                        /\ voiceActive => voice = room[conn]
      BY DEF RoomAgreement, Session!RoomAgreement
    <2>1. /\ Online /\ cmdq[conn] = <<>> /\ wire[conn] = <<>> /\ msgq = <<>>
      BY DEF Session!Quiet, Session!NoConn, Online
    <2>2. Unread = <<>>
      BY <2>1 DEF Unread
    <2>3. Settled(Unread)
      BY <2>2 DEF Settled
    <2>4. Shown(room[conn], cmdq[conn])
      BY <2>1, <2>3 DEF SessionInv, Follows
    <2>5. ~Leaving(cmdq[conn])
      BY <2>1 DEF Leaving
    <2> QED
      BY <2>4, <2>5 DEF Shown
  <1> QED
    BY <1>1, <1>2, <1>3, PTL DEF ConnectionSpec
=============================================================================
