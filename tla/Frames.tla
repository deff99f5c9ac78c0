------------------------------- MODULE Frames -------------------------------
(***************************************************************************)
(* The control connection as a byte stream: encode_tcp_frame and           *)
(* extract_frames (protocol.rs), the writer task that may die in the       *)
(* middle of a frame and the reader loops of server and client (tcp.rs,    *)
(* network.rs), which take whatever a read returns and cut it into frames. *)
(*                                                                         *)
(* TCP delivers bytes in order, so a byte is its offset in the stream and  *)
(* the pending buffer is a length: its content is the bytes of the stream  *)
(* from the first one not yet consumed.  A frame is its number in the      *)
(* stream; of its payload only the length counts, and whether it decodes.  *)
(***************************************************************************)
EXTENDS Naturals, Sequences, FiniteSets

CONSTANTS
    Prefix,         \* bytes of the length prefix
    MaxFrame,       \* config::MAX_FRAME_SIZE
    ReadBuf,        \* config::TCP_READ_BUF
    MaxPending,     \* config::MAX_PENDING_BUF
    Lengths,        \* payload lengths a sender may encode
    MaxFrames       \* bound: frames sent

(* 4 + 65536 - 1 + 8192 <= 131072. *)
ASSUME FramesAssumption ==
    /\ Prefix \in Nat \ {0} /\ ReadBuf \in Nat \ {0}
    /\ MaxFrame \in Nat /\ MaxPending \in Nat /\ MaxFrames \in Nat
    /\ Prefix + MaxFrame + ReadBuf <= MaxPending + 1
    /\ Lengths \subseteq Nat

VARIABLES
    frames,         \* history: the frames encoded, in order
    ends,           \* history: the offset in the stream where each ends
    written,        \* bytes the writer handed to the connection
    closed,         \* the writer is gone: no byte follows
    read,           \* bytes the reader took
    pending,        \* length of the reader's pending buffer
    batch,          \* the frames extract_frames found and the loop has still to handle
    pos,            \* the frame the pending buffer begins with
    where,          \* "read", "extract", "handle", or why the reader ended
    delivered       \* the frames handed to the message handlers

senderVars == <<frames, ends, written, closed>>
vars == <<senderVars, read, pending, batch, pos, where, delivered>>

Init ==
    /\ frames = <<>> /\ ends = <<>> /\ written = 0 /\ closed = FALSE
    /\ read = 0 /\ pending = 0 /\ batch = <<>> /\ pos = 1
    /\ where = "read" /\ delivered = <<>>

(***************************************************************************)
(* The sender: a frame is its prefix and its payload; no limit is checked. *)
(***************************************************************************)
StreamEnd == IF ends = <<>> THEN 0 ELSE ends[Len(ends)]

EncodeFrame(n, ok) ==
    /\ ~closed
    /\ Len(frames) < MaxFrames
    /\ written = StreamEnd
    /\ frames' = Append(frames, [len |-> n, ok |-> ok])
    /\ ends' = Append(ends, StreamEnd + Prefix + n)
    /\ UNCHANGED <<written, closed, read, pending, batch, pos, where, delivered>>

(* write_all hands the frame over in pieces. *)
WriteSome(n) ==
    /\ ~closed
    /\ written + n <= StreamEnd
    /\ written' = written + n
    /\ UNCHANGED <<frames, ends, closed, read, pending, batch, pos, where, delivered>>

(* The writer fails, or its task is aborted, perhaps inside a frame. *)
WriterGone ==
    /\ ~closed
    /\ closed' = TRUE
    /\ UNCHANGED <<frames, ends, written, read, pending, batch, pos, where, delivered>>

(***************************************************************************)
(* The reader.                                                             *)
(***************************************************************************)

(* Too much unparsed data ends the connection. *)
AfterRead(n) == IF n > MaxPending THEN "overflow" ELSE "extract"

Read(n) ==
    /\ where = "read"
    /\ read + n <= written
    /\ read' = read + n
    /\ pending' = pending + n
    /\ where' = AfterRead(pending + n)
    /\ UNCHANGED <<senderVars, batch, pos, delivered>>

ReadEof ==
    /\ where = "read"
    /\ closed /\ read = written
    /\ where' = "eof"
    /\ UNCHANGED <<senderVars, read, pending, batch, pos, delivered>>

(* The server gives up on a client that sends nothing for too long. *)
IdleTimeout ==
    /\ where = "read"
    /\ read = written
    /\ where' = "idle"
    /\ UNCHANGED <<senderVars, read, pending, batch, pos, delivered>>

(* try_decode_frame: the prefix is there, and the payload is. *)
HasPrefix == pending >= Prefix

(* Mutant: a buffer that ends with its frame is taken for incomplete. *)
CompleteStrict == pending > Prefix + frames[pos].len

Complete == pending >= Prefix + frames[pos].len

ExtractOne ==
    /\ where = "extract"
    /\ HasPrefix /\ frames[pos].len <= MaxFrame /\ Complete
    /\ batch' = Append(batch, pos)
    /\ pending' = pending - (Prefix + frames[pos].len)
    /\ pos' = pos + 1
    /\ UNCHANGED <<senderVars, read, where, delivered>>

(* The error returns without the frames found before it in this read. *)
TooLarge ==
    /\ where = "extract"
    /\ HasPrefix /\ frames[pos].len > MaxFrame
    /\ batch' = <<>>
    /\ where' = "toolarge"
    /\ UNCHANGED <<senderVars, read, pending, pos, delivered>>

(* Mutant: one frame per read, the rest waits. *)
NothingMoreAfterOne ==
    batch # <<>> \/ (HasPrefix => frames[pos].len <= MaxFrame /\ ~Complete)

NothingMore == HasPrefix => frames[pos].len <= MaxFrame /\ ~Complete

ExtractDone ==
    /\ where = "extract"
    /\ NothingMore
    /\ where' = IF batch = <<>> THEN "read" ELSE "handle"
    /\ UNCHANGED <<senderVars, read, pending, batch, pos, delivered>>

Decodes(k) == frames[k].ok

(* Mutant: a frame that does not decode drops the rest of its read. *)
HandleOneOrStop ==
    /\ where = "handle"
    /\ delivered' = IF Decodes(Head(batch)) THEN Append(delivered, Head(batch))
                    ELSE delivered
    /\ batch' = IF Decodes(Head(batch)) THEN Tail(batch) ELSE <<>>
    /\ where' = IF batch' = <<>> THEN "read" ELSE "handle"
    /\ UNCHANGED <<senderVars, read, pending, pos>>

(* A frame that decodes is handled, and then the next one is looked at. *)
HandleOne ==
    /\ where = "handle"
    /\ delivered' = IF Decodes(Head(batch)) THEN Append(delivered, Head(batch))
                    ELSE delivered
    /\ batch' = Tail(batch)
    /\ where' = IF batch' = <<>> THEN "read" ELSE "handle"
    /\ UNCHANGED <<senderVars, read, pending, pos>>

SomeRead == \E n \in 1..ReadBuf : Read(n)
SomeWrite == \E n \in 1..(Prefix + MaxFrame + 1) : WriteSome(n)

Next ==
    \/ \E n \in Lengths, ok \in BOOLEAN : EncodeFrame(n, ok)
    \/ SomeWrite
    \/ WriterGone
    \/ SomeRead
    \/ ReadEof
    \/ IdleTimeout
    \/ ExtractOne
    \/ TooLarge
    \/ ExtractDone
    \/ HandleOne

(* The reader's task is polled while there are bytes or the end to read;   *)
(* the idle timer is not relied on.                                        *)
Fairness ==
    /\ WF_vars(SomeRead)
    /\ WF_vars(ReadEof)
    /\ WF_vars(ExtractOne \/ TooLarge \/ ExtractDone \/ HandleOne)

Spec == Init /\ [][Next]_vars /\ Fairness

-----------------------------------------------------------------------------
(***************************************************************************)
(* Properties.                                                             *)
(***************************************************************************)
FrameRecords == [len : Lengths, ok : BOOLEAN]
Ended == {"eof", "idle", "overflow", "toolarge"}

(* The variables have their types, and offsets are in order. *)
TypeOK ==
    /\ frames \in Seq(FrameRecords) /\ ends \in Seq(Nat)
    /\ Len(ends) = Len(frames)
    /\ written \in Nat /\ read \in Nat /\ pending \in Nat
    /\ read <= written /\ written <= StreamEnd
    /\ closed \in BOOLEAN
    /\ batch \in Seq(1..Len(frames)) /\ delivered \in Seq(1..Len(frames))
    /\ pos \in 1..(Len(frames) + 1)
    /\ where \in {"read", "extract", "handle"} \union Ended

(* The reader never looks for a prefix or a payload beyond the stream: the *)
(* frame it is about to cut is one that was sent.                          *)
InStream == where = "extract" /\ HasPrefix => pos <= Len(frames)

(* The pending buffer is the stream between the last frame cut and the     *)
(* last byte read: cutting never loses its place.                          *)
Aligned == read = pending + (IF pos = 1 THEN 0 ELSE ends[pos - 1])

(* Between two reads exactly the frames that have arrived completely are   *)
(* cut, and of these the ones that decode are delivered, each once and in  *)
(* order, however the stream was split.                                    *)
DeliveredExactly ==
    where = "read" =>
        /\ pos = Cardinality({i \in DOMAIN ends : ends[i] <= read}) + 1
        /\ {delivered[i] : i \in DOMAIN delivered} = {k \in 1..(pos - 1) : Decodes(k)}
        /\ \A i, j \in DOMAIN delivered : i < j => delivered[i] < delivered[j]

(* The buffer is bounded by one frame and one read, so the overflow check  *)
(* never ends a connection, whatever the peer sends: an oversized frame is *)
(* found by its prefix first.                                              *)
NoOverflow ==
    /\ where \in {"read", "handle"} => pending < Prefix + MaxFrame
    /\ where # "overflow"

(* A frame of legal size that was written completely is delivered, or the  *)
(* connection ends for a reason of its own.                                *)
WrittenIsDelivered ==
    \A k \in 1..MaxFrames :
        (k \in DOMAIN ends /\ written >= ends[k])
            ~> (pos > k \/ where \in {"toolarge", "idle"})
=============================================================================
