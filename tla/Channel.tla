------------------------------- MODULE Channel -------------------------------
(***************************************************************************)
(* One direction of a connection, from the side that accepted it to the    *)
(* side that dialled (fq-net transport.rs, fq-proto frame.rs, fq-crypto    *)
(* channel.rs).  The writer task encodes an envelope, splits it into       *)
(* segments that Noise can encrypt, and writes each as a frame with a      *)
(* length prefix; TCP hands over the bytes in pieces of any length; the    *)
(* reader puts frames together, decrypts them in order and joins the       *)
(* segments.  The first frame answers the handshake; the frames after it   *)
(* may have been read with it.                                             *)
(*                                                                         *)
(* Bytes are only counted: the buffer of the reader holds the first bytes  *)
(* of the frames that were written and not yet taken.  An envelope is its  *)
(* size and its place in the stream.                                       *)
(***************************************************************************)
EXTENDS Naturals, Sequences, FiniteSetsExt

CONSTANTS
    Sizes,               \* sizes of encoded envelopes
    MAX_FRAME_BYTES,
    NOISE_MAX_PLAINTEXT,
    NOISE_TAG_LEN,
    LENGTH_PREFIX_BYTES,
    COMPACT_THRESHOLD,
    READ_BYTES,          \* the array that read_frame reads into
    MaxEnvelopes         \* bound: how many envelopes are sent

SEGMENT_HEADER == 1
MAX_SEGMENT == NOISE_MAX_PLAINTEXT - SEGMENT_HEADER

ASSUME ChannelAssumption ==
    /\ Sizes \subseteq Nat \ {0}
    /\ {MAX_FRAME_BYTES, NOISE_MAX_PLAINTEXT, NOISE_TAG_LEN} \subseteq Nat
    /\ {LENGTH_PREFIX_BYTES, COMPACT_THRESHOLD, READ_BYTES} \subseteq Nat \ {0}
    /\ MaxEnvelopes \in Nat
    /\ MAX_SEGMENT > 0
    /\ NOISE_MAX_PLAINTEXT + NOISE_TAG_LEN <= MAX_FRAME_BYTES

VARIABLES
    accepted,  \* sizes of the envelopes that were put into the connection's queue
    writing,   \* how many of them the writer has begun
    written,   \* how much of the last one it has split off
    wnonce,    \* segments encrypted
    frames,    \* frames written and not taken by the reader
    onWire,    \* bytes written and not yet read
    cut,       \* the connection is dead
    buffered,  \* the length of FrameDecoder.buf
    start,     \* FrameDecoder.start
    reader,    \* "greet": reads the answer of the handshake, "open", "ended"
    rnonce,    \* segments decrypted
    assembled, \* the segments of recv_envelope so far
    delivered  \* sizes of the envelopes that were returned

writerVars == <<accepted, writing, written, wnonce>>
decoderVars == <<buffered, start>>
readerVars == <<reader, rnonce, assembled, delivered>>
vars == <<writerVars, frames, onWire, cut, decoderVars, readerVars>>

\* A frame is the answer of the handshake, 0, or a segment of an envelope.
Frame == [of : 0 .. MaxEnvelopes, data : 0 .. MAX_SEGMENT, more : BOOLEAN, nonce : Nat]

Greeting == [of |-> 0, data |-> 0, more |-> FALSE, nonce |-> 0]

\* The segment with its control byte and the tag of its encryption.
Payload(f) == SEGMENT_HEADER + f.data + NOISE_TAG_LEN

FrameBytes(f) == LENGTH_PREFIX_BYTES + Payload(f)

Nothing == [of |-> {}, data |-> 0]

Available == buffered - start

\* All bytes of a sequence of frames.
Bytes(s) ==
    LET upto[i \in 0 .. Len(s)] == IF i = 0 THEN 0 ELSE upto[i - 1] + FrameBytes(s[i])
    IN  upto[Len(s)]

\* Every variable ranges over the values the code can give it.  As long as the
\* connection lives, every byte of a frame is on the wire or in the buffer.
TypeOK ==
    /\ accepted \in Seq(Sizes) /\ Len(accepted) <= MaxEnvelopes
    /\ writing \in 0 .. Len(accepted)
    /\ written \in Nat /\ wnonce \in Nat
    /\ frames \in Seq(Frame)
    /\ onWire \in Nat /\ cut \in BOOLEAN
    /\ buffered \in Nat /\ start \in 0 .. buffered
    /\ reader \in {"greet", "open", "ended"}
    /\ rnonce \in 0 .. wnonce
    /\ assembled \in [of : SUBSET (1 .. MaxEnvelopes), data : 0 .. MAX_FRAME_BYTES]
    /\ delivered \in Seq(Sizes)
    /\ onWire + Available <= Bytes(frames)
    /\ cut \/ reader = "ended" \/ onWire + Available = Bytes(frames)

Init ==
    /\ accepted = <<>> /\ writing = 0 /\ written = 0 /\ wnonce = 0
    /\ frames = <<Greeting>> /\ onWire = FrameBytes(Greeting)
    /\ cut = FALSE
    /\ buffered = 0 /\ start = 0
    /\ reader = "greet" /\ rnonce = 0 /\ assembled = Nothing /\ delivered = <<>>

-----------------------------------------------------------------------------
(* The writer task. *)

\* Somebody puts an envelope into the queue.
Put(size) ==
    /\ Len(accepted) < MaxEnvelopes
    /\ accepted' = Append(accepted, size)
    /\ UNCHANGED <<writing, written, wnonce, frames, onWire, cut, decoderVars, readerVars>>

\* The size of the envelope that is being written.
Total == IF writing = 0 THEN 0 ELSE accepted[writing]

Done == written = Total

\* writer_task takes the next envelope.
Begin ==
    /\ ~cut /\ Done /\ writing < Len(accepted)
    /\ writing' = writing + 1 /\ written' = 0
    /\ UNCHANGED <<accepted, wnonce, frames, onWire, cut, decoderVars, readerVars>>

\* mutant: the last segment says that more follows when it is full
CutAtFull(from, total) ==
    IF total - from >= MAX_SEGMENT THEN [data |-> MAX_SEGMENT, more |-> TRUE]
    ELSE [data |-> total - from, more |-> FALSE]

\* The next segment of an envelope of which so much was sent.
CutSegment(from, total) ==
    IF total + SEGMENT_HEADER <= NOISE_MAX_PLAINTEXT THEN [data |-> total, more |-> FALSE]
    ELSE LET end == Min({from + MAX_SEGMENT, total}) IN
         [data |-> end - from, more |-> end < total]

\* send_segment: encrypted with the next nonce, framed and written.
SendSegment ==
    LET s == CutSegment(written, Total)
        f == [of |-> writing, data |-> s.data, more |-> s.more, nonce |-> wnonce] IN
    /\ ~cut /\ ~Done
    /\ Payload(f) <= MAX_FRAME_BYTES \* encode_frame
    /\ written' = written + s.data
    /\ wnonce' = wnonce + 1
    /\ frames' = Append(frames, f)
    /\ onWire' = onWire + FrameBytes(f)
    /\ UNCHANGED <<accepted, writing, cut, decoderVars, readerVars>>

\* The connection breaks, or is replaced and its tasks aborted: what is on the
\* wire arrives in part, up to any byte.
Cut(k) ==
    /\ ~cut /\ k <= onWire
    /\ cut' = TRUE
    /\ onWire' = k
    /\ UNCHANGED <<writerVars, frames, decoderVars, readerVars>>

-----------------------------------------------------------------------------
(* The reader. *)

\* FrameDecoder::next_frame has a whole frame.
HasFrame ==
    /\ frames # <<>>
    /\ Available >= LENGTH_PREFIX_BYTES
    /\ Available >= FrameBytes(Head(frames))

\* Otherwise it moves the rest to the front when that is less than a prefix.
Idle(b, s) == IF b - s < LENGTH_PREFIX_BYTES THEN <<b - s, 0>> ELSE <<b, s>>

\* read_frame reads more bytes.
Read(k) ==
    LET d == Idle(buffered, start) IN
    /\ reader # "ended" /\ ~HasFrame
    /\ k <= onWire
    /\ onWire' = onWire - k
    /\ buffered' = d[1] + k /\ start' = d[2]
    /\ UNCHANGED <<writerVars, frames, cut, readerVars>>

\* mutant: the bytes of frames that were taken stay in the buffer
TakeNoCompact(b, s) == IF s = b THEN <<0, 0>> ELSE <<b, s>>

\* The buffer after the bytes up to s were taken.
TakeBytes(b, s) ==
    IF s = b THEN <<0, 0>>
    ELSE IF s >= COMPACT_THRESHOLD THEN <<b - s, 0>> ELSE <<b, s>>

TakeFrame ==
    LET d == TakeBytes(buffered, start + FrameBytes(Head(frames))) IN
    /\ frames' = Tail(frames)
    /\ buffered' = d[1] /\ start' = d[2]

\* mutant: connect_out gives the connection a new decoder
FinishAfresh ==
    /\ reader = "greet" /\ HasFrame
    /\ frames' = Tail(frames) /\ buffered' = 0 /\ start' = 0
    /\ reader' = "open"
    /\ UNCHANGED <<writerVars, onWire, cut, rnonce, assembled, delivered>>

\* HandshakeInitiator::finish; the decoder goes to the reader of the connection.
Finish ==
    /\ reader = "greet" /\ HasFrame
    /\ TakeFrame
    /\ reader' = "open"
    /\ UNCHANGED <<writerVars, onWire, cut, rnonce, assembled, delivered>>

\* HANDSHAKE_TIMEOUT: connect_out drops the stream.
HandshakeTimeout ==
    /\ reader = "greet" /\ ~cut
    /\ cut' = TRUE
    /\ reader' = "ended"
    /\ UNCHANGED <<writerVars, frames, onWire, decoderVars, rnonce, assembled, delivered>>

\* The segments with one more.
Join(f) == [of |-> assembled.of \cup {f.of}, data |-> assembled.data + f.data]

\* They are one envelope, which the codec can decode.
Whole(a) == \E e \in a.of : a.of = {e} /\ a.data = accepted[e]

\* recv_envelope returns an error for a segment that does not decrypt, for too
\* many of them, and when what they make cannot be decoded.
Refused(f) ==
    \/ f.nonce # rnonce
    \/ Join(f).data > MAX_FRAME_BYTES
    \/ ~f.more /\ ~Whole(Join(f))

\* One round of recv_envelope; without SEGMENT_MORE the envelope is complete.
ReceiveSegment ==
    LET f == Head(frames) IN
    /\ reader = "open" /\ HasFrame /\ ~Refused(f)
    /\ TakeFrame
    /\ rnonce' = rnonce + 1
    /\ IF f.more THEN assembled' = Join(f) /\ UNCHANGED delivered
       ELSE /\ assembled' = Nothing
            /\ delivered' = Append(delivered, Join(f).data)
    /\ UNCHANGED <<writerVars, onWire, cut, reader>>

\* The stream ends: with the connection, or with a segment that is refused.
ReaderEnds ==
    /\ \/ reader # "ended" /\ ~HasFrame /\ cut /\ onWire = 0
       \/ reader = "open" /\ HasFrame /\ Refused(Head(frames))
    /\ reader' = "ended"
    /\ UNCHANGED <<writerVars, frames, onWire, cut, decoderVars, rnonce, assembled, delivered>>

-----------------------------------------------------------------------------
ReadSome == \E k \in 1 .. READ_BYTES : Read(k)

Next ==
    \/ \E size \in Sizes : Put(size)
    \/ Begin \/ SendSegment
    \/ \E k \in 0 .. onWire : Cut(k)
    \/ ReadSome
    \/ Finish \/ HandshakeTimeout \/ ReceiveSegment \/ ReaderEnds

Spec == Init /\ [][Next]_vars

\* The two tasks are scheduled, and TCP hands over what it has.
FairSpec ==
    /\ Spec
    /\ WF_vars(Begin \/ SendSegment)
    /\ WF_vars(ReadSome \/ Finish \/ ReceiveSegment \/ ReaderEnds)

-----------------------------------------------------------------------------
(* Properties. *)

\* The buffer of the reader stays small, however the bytes come: a frame that is
\* not complete, one read, and what was taken but not yet moved away
\* (FrameDecoder::next_frame and compact, read_frame).
BufferBounded ==
    buffered <= (COMPACT_THRESHOLD - 1) + READ_BYTES
                + (LENGTH_PREFIX_BYTES + NOISE_MAX_PLAINTEXT + NOISE_TAG_LEN - 1)

Stream == INSTANCE Fifo WITH Limit <- MAX_FRAME_BYTES, ended <- (reader = "ended")

\* Envelopes arrive whole, in order and once; the reader gives the stream up only
\* when the connection is cut or an envelope is too large, and otherwise all that
\* was accepted arrives, wherever TCP breaks the bytes (send_envelope,
\* FrameDecoder, recv_envelope, connect_out).
ImplementsFifo == Stream!Spec

=============================================================================
