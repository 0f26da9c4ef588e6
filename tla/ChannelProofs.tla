--------------------------- MODULE ChannelProofs ----------------------------
(***************************************************************************)
(* Proofs about Channel for any sizes of envelopes, frames, reads and      *)
(* buffers: types, the bound of the reader's buffer, and that the segments *)
(* and frames of one direction of a connection implement an abstract       *)
(* first-in first-out stream.                                              *)
(***************************************************************************)
EXTENDS Channel, Integers, FiniteSetTheorems, SequenceTheorems, WellFoundedInduction, TLAPS

-----------------------------------------------------------------------------
(* The bytes of a sequence of frames.  Bytes is recursive: what it computes  *)
(* is shown by induction, which follows from the well-founded order of the   *)
(* finite sets.                                                              *)

\* A set that contains the predecessor of each of its elements contains zero.
LEMMA Descent ==
  ASSUME NEW n \in Nat, NEW B \in SUBSET (0 .. n), 0 \notin B,
         \A i \in 1 .. n : i \in B => i - 1 \in B
  PROVE  B = {}
<1> SUFFICES ASSUME B # {} PROVE FALSE
  OBVIOUS
<1> DEFINE T == {0 .. i : i \in B}
<1>1. T # {} /\ T \subseteq FiniteSubsetsOf(0 .. n)
  <2>1. ASSUME NEW i \in B PROVE 0 .. i \in FiniteSubsetsOf(0 .. n)
    <3>1. i \in Int /\ 0 .. i \subseteq 0 .. n
      OBVIOUS
    <3>2. IsFiniteSet(0 .. i)
      BY <3>1, FS_Interval
    <3> QED
      BY <3>1, <3>2 DEF FiniteSubsetsOf
  <2> QED
    BY <2>1
<1>2. IsWellFoundedOn(StrictSubsetOrdering(0 .. n), FiniteSubsetsOf(0 .. n))
  BY FS_StrictSubsetOrderingWellFounded
<1>3. PICK x \in T : \A y \in T : <<y, x>> \notin StrictSubsetOrdering(0 .. n)
  <2> HIDE DEF T
  <2> QED
    BY <1>1, <1>2, WFMin
<1>4. PICK i \in B : x = 0 .. i
  BY <1>3
<1>5. i \in 1 .. n /\ i - 1 \in B
  BY <1>4
<1>6. 0 .. i - 1 \in T /\ 0 .. i - 1 \subseteq 0 .. i /\ i \notin 0 .. i - 1 /\ i \in 0 .. i
  BY <1>5
<1>7. <<0 .. i - 1, x>> \in StrictSubsetOrdering(0 .. n)
  BY <1>4, <1>5, <1>6 DEF StrictSubsetOrdering
<1> QED
  BY <1>3, <1>6, <1>7

\* The sums up to each place of a sequence of frames.
Sums(s, g, n) ==
    /\ g \in [0 .. n -> Nat]
    /\ g[0] = 0
    /\ \A i \in 1 .. n : g[i] = g[i - 1] + FrameBytes(s[i])

LEMMA FrameBytesType ==
  ASSUME NEW f \in Frame
  PROVE  FrameBytes(f) \in Nat /\ FrameBytes(f) > LENGTH_PREFIX_BYTES
  BY ChannelAssumption DEF Frame, FrameBytes, Payload, SEGMENT_HEADER, MAX_SEGMENT

LEMMA SumsUnique ==
  ASSUME NEW s \in Seq(Frame), NEW n \in 0 .. Len(s), NEW g, NEW h,
         Sums(s, g, n), Sums(s, h, n)
  PROVE  \A i \in 0 .. n : g[i] = h[i]
<1> DEFINE B == {i \in 0 .. n : g[i] # h[i]}
<1>1. B \in SUBSET (0 .. n) /\ 0 \notin B /\ n \in Nat
  BY DEF Sums
<1>2. ASSUME NEW i \in 1 .. n, i \in B PROVE i - 1 \in B
  BY <1>2, <1>1 DEF Sums
<1> HIDE DEF B
<1>3. B = {}
  BY <1>1, <1>2, Descent
<1> QED
  BY <1>3 DEF B

LEMMA SumsExtend ==
  ASSUME NEW s \in Seq(Frame), NEW n \in 1 .. Len(s), NEW g, Sums(s, g, n - 1)
  PROVE  \E h : Sums(s, h, n)
<1> DEFINE h == [i \in 0 .. n |-> IF i = n THEN g[n - 1] + FrameBytes(s[n]) ELSE g[i]]
<1>1. s[n] \in Frame /\ n - 1 \in Nat
  BY ElementOfSeq
<1>2. FrameBytes(s[n]) \in Nat
  BY <1>1, FrameBytesType
<1>3. h \in [0 .. n -> Nat] /\ h[0] = 0
  BY <1>1, <1>2 DEF Sums
<1>4. ASSUME NEW i \in 1 .. n PROVE h[i] = h[i - 1] + FrameBytes(s[i])
  BY <1>1 DEF Sums
<1> QED
  BY <1>3, <1>4 DEF Sums

LEMMA SumsExist ==
  ASSUME NEW s \in Seq(Frame), NEW n \in 0 .. Len(s)
  PROVE  \E g : Sums(s, g, n)
<1> DEFINE B == {i \in 0 .. n : ~ \E g : Sums(s, g, i)}
<1>1. Sums(s, [i \in 0 .. 0 |-> 0], 0)
  BY DEF Sums
<1>2. n \in Nat /\ B \in SUBSET (0 .. n) /\ 0 \notin B
  BY <1>1
<1>3. ASSUME NEW i \in 1 .. n, i \in B PROVE i - 1 \in B
  <2>1. i \in 1 .. Len(s) /\ i - 1 \in 0 .. n
    OBVIOUS
  <2>2. \A g : ~Sums(s, g, i - 1)
    BY <1>3, <2>1, SumsExtend
  <2> QED
    BY <2>1, <2>2
<1> HIDE DEF B
<1>4. B = {}
  BY <1>2, <1>3, Descent
<1> QED
  BY <1>2, <1>4 DEF B

\* The recursive definition computes the sum up to the end.
LEMMA BytesIsSum ==
  ASSUME NEW s \in Seq(Frame)
  PROVE  \E g : Sums(s, g, Len(s)) /\ Bytes(s) = g[Len(s)]
<1> DEFINE n == Len(s)
           Step(g) == [i \in 0 .. n |-> IF i = 0 THEN 0 ELSE g[i - 1] + FrameBytes(s[i])]
           upto == CHOOSE g : g = Step(g)
<1>1. n \in Nat
  OBVIOUS
<1>2. PICK g : Sums(s, g, n)
  BY <1>1, SumsExist
<1>3. g = Step(g)
  BY <1>1, <1>2 DEF Sums
<1>4. upto = Step(upto)
  BY <1>3
<1>5. Bytes(s) = upto[n]
  BY DEF Bytes
<1>6. upto[n] = g[n]
  <2> DEFINE B == {i \in 0 .. n : upto[i] # g[i]}
  <2>1. upto[0] = 0 /\ \A i \in 1 .. n : upto[i] = upto[i - 1] + FrameBytes(s[i])
    <3> HIDE DEF upto
    <3> QED
      BY <1>1, <1>4
  <2> HIDE DEF upto
  <2>2. B \in SUBSET (0 .. n) /\ 0 \notin B
    BY <1>2, <2>1 DEF Sums
  <2>3. ASSUME NEW i \in 1 .. n, i \in B PROVE i - 1 \in B
    BY <1>2, <2>1, <2>3 DEF Sums
  <2> HIDE DEF B
  <2>4. B = {}
    BY <1>1, <2>2, <2>3, Descent
  <2> QED
    BY <1>1, <2>4 DEF B
<1> QED
  BY <1>2, <1>5, <1>6

LEMMA BytesEmpty == Bytes(<<>>) = 0
<1>1. <<>> \in Seq(Frame) /\ Len(<<>>) = 0
  BY EmptySeq
<1>2. PICK g : Sums(<<>>, g, Len(<<>>)) /\ Bytes(<<>>) = g[Len(<<>>)]
  BY <1>1, BytesIsSum
<1> QED
  BY <1>1, <1>2 DEF Sums

LEMMA BytesType ==
  ASSUME NEW s \in Seq(Frame)
  PROVE  Bytes(s) \in Nat
<1>1. PICK g : Sums(s, g, Len(s)) /\ Bytes(s) = g[Len(s)]
  BY BytesIsSum
<1> QED
  BY <1>1, LenProperties DEF Sums

LEMMA BytesAppend ==
  ASSUME NEW s \in Seq(Frame), NEW f \in Frame
  PROVE  Bytes(Append(s, f)) = Bytes(s) + FrameBytes(f)
<1> DEFINE t == Append(s, f)
           n == Len(s)
<1>1. /\ t \in Seq(Frame) /\ n \in Nat /\ Len(t) = n + 1 /\ t[n + 1] = f
      /\ \A i \in 1 .. n : t[i] = s[i]
  BY AppendProperties, LenProperties
<1>2. PICK g : Sums(s, g, n) /\ Bytes(s) = g[n]
  BY BytesIsSum
<1>3. PICK h : Sums(t, h, n + 1) /\ Bytes(t) = h[n + 1]
  BY <1>1, BytesIsSum
<1> HIDE DEF t, n
<1> DEFINE k == [i \in 0 .. n |-> h[i]]
<1>4. Sums(s, k, n)
  <2>1. k \in [0 .. n -> Nat] /\ k[0] = 0
    BY <1>1, <1>3 DEF Sums
  <2>2. ASSUME NEW i \in 1 .. n PROVE k[i] = k[i - 1] + FrameBytes(s[i])
    BY <1>1, <1>3, <2>2 DEF Sums
  <2> QED
    BY <2>1, <2>2 DEF Sums
<1>5. g[n] = h[n]
  <2>1. \A i \in 0 .. n : g[i] = k[i]
    BY <1>1, <1>2, <1>4, SumsUnique DEF n
  <2> QED
    BY <1>1, <2>1
<1> QED
  BY <1>1, <1>2, <1>3, <1>5 DEF Sums, t

LEMMA BytesTail ==
  ASSUME NEW s \in Seq(Frame), s # <<>>
  PROVE  Bytes(s) = FrameBytes(Head(s)) + Bytes(Tail(s))
<1> DEFINE t == Tail(s)
           n == Len(t)
<1>1. /\ t \in Seq(Frame) /\ n \in Nat /\ Len(s) = n + 1
      /\ s[1] = Head(s) /\ Head(s) \in Frame
      /\ \A i \in 1 .. n : t[i] = s[i + 1]
  BY HeadTailProperties, LenProperties
<1>2. PICK g : Sums(t, g, n) /\ Bytes(t) = g[n]
  BY <1>1, BytesIsSum
<1>3. PICK h : Sums(s, h, n + 1) /\ Bytes(s) = h[n + 1]
  BY <1>1, BytesIsSum
<1>4. FrameBytes(Head(s)) \in Nat
  BY <1>1, FrameBytesType
<1> HIDE DEF t, n
<1> DEFINE k == [i \in 0 .. n + 1 |-> IF i = 0 THEN 0 ELSE g[i - 1] + FrameBytes(Head(s))]
<1>5. Sums(s, k, n + 1)
  <2>1. k \in [0 .. n + 1 -> Nat] /\ k[0] = 0
    BY <1>1, <1>2, <1>4 DEF Sums
  <2>2. ASSUME NEW i \in 1 .. n + 1 PROVE k[i] = k[i - 1] + FrameBytes(s[i])
    <3>1. CASE i = 1
      BY <1>1, <1>2, <1>4, <3>1 DEF Sums
    <3>2. CASE i # 1
      <4>1. i - 1 \in 1 .. n /\ i - 2 \in 0 .. n /\ t[i - 1] = s[i]
        BY <1>1, <3>2
      <4>2. g[i - 1] = g[i - 2] + FrameBytes(s[i]) /\ g[i - 1] \in Nat /\ g[i - 2] \in Nat
        BY <1>1, <1>2, <4>1 DEF Sums
      <4>3. s[i] \in Frame
        BY <1>1, ElementOfSeq
      <4>4. k[i] = g[i - 1] + FrameBytes(Head(s)) /\ k[i - 1] = g[i - 2] + FrameBytes(Head(s))
        BY <1>1, <3>2
      <4> QED
        BY <1>4, <4>2, <4>3, <4>4, FrameBytesType
    <3> QED
      BY <3>1, <3>2
  <2> QED
    BY <2>1, <2>2 DEF Sums
<1>6. h[n + 1] = k[n + 1]
  <2>1. n + 1 \in 0 .. Len(s)
    BY <1>1
  <2>2. \A i \in 0 .. n + 1 : h[i] = k[i]
    BY <1>3, <1>5, <2>1, SumsUnique
  <2> QED
    BY <1>1, <2>2
<1>7. k[n + 1] = g[n] + FrameBytes(Head(s))
  BY <1>1
<1> QED
  BY <1>1, <1>2, <1>3, <1>4, <1>6, <1>7 DEF Sums, t

-----------------------------------------------------------------------------
(* The invariant. *)

\* The frames that carry segments.
Segments == IF reader = "greet" THEN Tail(frames) ELSE frames

\* The writer keeps within the envelope, and one that fits a segment is not split.
Splitting == written <= Total /\ (~Done /\ Total <= MAX_SEGMENT => written = 0)

\* Segment i lies in envelope env[i] from byte at[i] on; the next lies where it
\* stops.  The first is where the reader is, and after the last is the writer.
Places(env, at) ==
    LET n == Len(Segments) IN
    /\ env \in [1 .. n + 1 -> Nat] /\ at \in [1 .. n + 1 -> Nat]
    /\ env[1] = Len(delivered) + 1 /\ at[1] = assembled.data
    /\ env[n + 1] = IF Done THEN writing + 1 ELSE writing
    /\ at[n + 1] = IF Done THEN 0 ELSE written
    /\ \A i \in 1 .. n :
          LET f == Segments[i] IN
          /\ f.of = env[i] /\ env[i] \in 1 .. Len(accepted)
          /\ f.nonce = rnonce + i - 1
          /\ f.data > 0 /\ at[i] + f.data <= accepted[env[i]]
          /\ f.more <=> at[i] + f.data < accepted[env[i]]
          /\ env[i + 1] = IF f.more THEN env[i] ELSE env[i] + 1
          /\ at[i + 1] = IF f.more THEN at[i] + f.data ELSE 0

\* As long as the reader reads, the segments under way continue what it has and
\* lead to what the writer does next.
Chained ==
    reader # "ended" =>
      /\ reader = "greet" => /\ frames # <<>> /\ Head(frames) = Greeting
                             /\ rnonce = 0 /\ assembled = Nothing /\ delivered = <<>>
      /\ wnonce = rnonce + Len(Segments)
      /\ assembled.of = IF assembled.data = 0 THEN {} ELSE {Len(delivered) + 1}
      /\ \E env, at : Places(env, at)

\* What was taken from the buffer is moved away in time, and no more is read when
\* there is a whole frame.
Compacted ==
    /\ start < COMPACT_THRESHOLD
    /\ Available < READ_BYTES + LENGTH_PREFIX_BYTES + NOISE_MAX_PLAINTEXT + NOISE_TAG_LEN

IInv == TypeOK /\ Splitting /\ Chained /\ Compacted

\* The part of TypeOK about one variable each.
Types ==
    /\ accepted \in Seq(Sizes) /\ Len(accepted) <= MaxEnvelopes
    /\ writing \in 0 .. Len(accepted) /\ written \in Nat /\ wnonce \in Nat
    /\ frames \in Seq(Frame) /\ onWire \in Nat /\ cut \in BOOLEAN
    /\ buffered \in Nat /\ start \in 0 .. buffered
    /\ reader \in {"greet", "open", "ended"} /\ rnonce \in 0 .. wnonce
    /\ assembled \in [of : SUBSET (1 .. MaxEnvelopes), data : 0 .. MAX_FRAME_BYTES]
    /\ delivered \in Seq(Sizes)

Carried ==
    /\ onWire + Available <= Bytes(frames)
    /\ cut \/ reader = "ended" \/ onWire + Available = Bytes(frames)

LEMMA TypeParts == (TypeOK <=> Types /\ Carried) /\ (TypeOK <=> Types /\ Carried)'
  BY DEF TypeOK, Types, Carried

LEMMA Constants ==
  /\ \A n \in Sizes : n \in Nat /\ n > 0
  /\ MAX_FRAME_BYTES \in Nat /\ NOISE_MAX_PLAINTEXT \in Nat /\ NOISE_TAG_LEN \in Nat
  /\ LENGTH_PREFIX_BYTES \in Nat /\ LENGTH_PREFIX_BYTES > 0
  /\ COMPACT_THRESHOLD \in Nat /\ COMPACT_THRESHOLD > 0
  /\ READ_BYTES \in Nat /\ READ_BYTES > 0
  /\ MaxEnvelopes \in Nat /\ SEGMENT_HEADER = 1
  /\ MAX_SEGMENT \in Nat /\ MAX_SEGMENT = NOISE_MAX_PLAINTEXT - 1 /\ MAX_SEGMENT > 0
  BY ChannelAssumption DEF SEGMENT_HEADER, MAX_SEGMENT

\* The frame of a segment is at least its prefix and bounded.
LEMMA FrameBytesBound ==
  ASSUME NEW f \in Frame
  PROVE  /\ FrameBytes(f) \in Nat /\ FrameBytes(f) >= LENGTH_PREFIX_BYTES
         /\ FrameBytes(f) <= LENGTH_PREFIX_BYTES + NOISE_MAX_PLAINTEXT + NOISE_TAG_LEN
         /\ Payload(f) \in Nat
  BY Constants DEF Frame, FrameBytes, Payload

LEMMA GreetingType == Greeting \in Frame
  BY Constants DEF Greeting, Frame

-----------------------------------------------------------------------------
LEMMA InitInv == Init => IInv
<1> SUFFICES ASSUME Init PROVE IInv
  OBVIOUS
<1> USE DEF Init
<1>1. /\ frames \in Seq(Frame) /\ Len(frames) = 1 /\ frames # <<>>
      /\ Head(frames) = Greeting /\ Tail(frames) = <<>>
  BY GreetingType
<1>2. Bytes(frames) = FrameBytes(Greeting) /\ FrameBytes(Greeting) \in Nat
  <2>1. FrameBytes(Greeting) \in Nat
    BY GreetingType, FrameBytesBound
  <2>2. Bytes(frames) = FrameBytes(Head(frames)) + Bytes(Tail(frames))
    BY <1>1, BytesTail
  <2> QED
    BY <1>1, <2>1, <2>2, BytesEmpty
<1>3. Types
  <2>1. accepted \in Seq(Sizes) /\ Len(accepted) = 0 /\ delivered \in Seq(Sizes)
    BY EmptySeq
  <2>2. assembled \in [of : SUBSET (1 .. MaxEnvelopes), data : 0 .. MAX_FRAME_BYTES]
    BY Constants DEF Nothing
  <2>3. onWire \in Nat /\ frames \in Seq(Frame)
    BY <1>1, <1>2
  <2> HIDE DEF Init
  <2>4. /\ writing = 0 /\ written = 0 /\ wnonce = 0 /\ cut = FALSE
        /\ buffered = 0 /\ start = 0 /\ reader = "greet" /\ rnonce = 0
    BY DEF Init
  <2>5. cut \in BOOLEAN /\ reader \in {"greet", "open", "ended"}
    BY <2>4
  <2>6. /\ Len(accepted) <= MaxEnvelopes /\ writing \in 0 .. Len(accepted)
        /\ written \in Nat /\ wnonce \in Nat /\ rnonce \in 0 .. wnonce
        /\ buffered \in Nat /\ start \in 0 .. buffered
    BY <2>1, <2>4, Constants
  <2> QED
    BY <2>1, <2>2, <2>3, <2>5, <2>6, Zenon DEF Types
<1>4. Carried
  BY <1>2 DEF Carried, Available
<1>5. Splitting
  BY DEF Splitting, Total, Done
<1>6. Segments = <<>> /\ Len(Segments) = 0
  BY <1>1 DEF Segments
<1>7. Places([i \in 1 .. 1 |-> 1], [i \in 1 .. 1 |-> 0])
  BY <1>6 DEF Places, Nothing, Done, Total
<1>8. Chained
  BY <1>1, <1>6, <1>7 DEF Chained, Nothing
<1>9. Compacted
  BY Constants DEF Compacted, Available
<1> QED
  BY <1>3, <1>4, <1>5, <1>8, <1>9, TypeParts DEF IInv

-----------------------------------------------------------------------------
(* The steps of the writer. *)

LEMMA PutInv ==
  ASSUME IInv, NEW size \in Sizes, Put(size)
  PROVE  IInv'
<1> USE DEF Put, writerVars, decoderVars, readerVars
<1>1. Types /\ Carried /\ Splitting /\ Chained /\ Compacted
  BY TypeParts DEF IInv
<1>2. /\ accepted' \in Seq(Sizes) /\ Len(accepted') = Len(accepted) + 1
      /\ \A i \in 1 .. Len(accepted) : accepted'[i] = accepted[i]
      /\ Len(accepted) \in Nat
  BY <1>1, AppendProperties, LenProperties DEF Types
<1>3. Total' = Total /\ Done' = Done /\ Segments' = Segments
  BY <1>1, <1>2 DEF Types, Total, Done, Segments
<1>4. Types'
  <2> HIDE DEF Put
  <2>1. Len(accepted') <= MaxEnvelopes
    BY <1>2, Constants DEF Put
  <2>2. UNCHANGED <<writing, written, wnonce, frames, onWire, cut, decoderVars, readerVars>>
    BY DEF Put
  <2> QED
    BY <1>1, <1>2, <2>1, <2>2 DEF Types
<1>5. Carried' /\ Splitting' /\ Compacted'
  BY <1>1, <1>3 DEF Carried, Splitting, Compacted, Available
<1>6. ASSUME NEW env, NEW at, Places(env, at) PROVE Places(env, at)'
  <2> HIDE DEF Put
  <2> SUFFICES ASSUME NEW i \in 1 .. Len(Segments), env[i] \in 1 .. Len(accepted)
               PROVE  env[i] \in 1 .. Len(accepted') /\ accepted'[env[i]] = accepted[env[i]]
    BY <1>3, <1>6, Zenon DEF Places, Put, writerVars, decoderVars, readerVars
  <2> QED
    BY <1>2
<1>7. Chained'
  BY <1>1, <1>3, <1>6 DEF Chained
<1> QED
  BY <1>4, <1>5, <1>7, TypeParts DEF IInv

\* The envelope that is being written.
LEMMA TotalType ==
  ASSUME Types
  PROVE  /\ Total \in Nat
         /\ writing > 0 => Total = accepted[writing] /\ Total \in Sizes /\ Total > 0
  BY Constants, ElementOfSeq DEF Types, Total

LEMMA BeginInv ==
  ASSUME IInv, Begin
  PROVE  IInv'
<1> USE DEF Begin, writerVars, decoderVars, readerVars
<1>1. Types /\ Carried /\ Splitting /\ Chained /\ Compacted
  BY TypeParts DEF IInv
<1>2. Types'
  BY <1>1 DEF Types
<1>3. Carried' /\ Compacted'
  BY <1>1 DEF Carried, Compacted, Available
<1>4. ~Done' /\ Splitting'
  <2>1. Types' => Total' \in Nat /\ (writing' > 0 => Total' > 0)
    BY <1>1, <1>2, Constants, ElementOfSeq DEF Types, Total
  <2>2. writing' > 0
    BY <1>1 DEF Types
  <2> QED
    BY <1>2, <2>1, <2>2 DEF Splitting, Done
<1>5. ASSUME NEW env, NEW at, Places(env, at) PROVE Places(env, at)'
  BY <1>4, <1>5 DEF Places, Segments
<1>6. Chained'
  BY <1>1, <1>5 DEF Chained, Segments
<1> QED
  BY <1>2, <1>3, <1>4, <1>6, TypeParts DEF IInv

\* What a segment takes from the envelope.
LEMMA CutSegmentType ==
  ASSUME NEW total \in Nat, NEW from \in Nat, from < total,
         total <= MAX_SEGMENT => from = 0
  PROVE  LET s == CutSegment(from, total) IN
         /\ s.data \in 1 .. MAX_SEGMENT /\ from + s.data <= total
         /\ s.more \in BOOLEAN /\ (s.more <=> from + s.data < total)
<1>1. CASE total + SEGMENT_HEADER <= NOISE_MAX_PLAINTEXT
  BY <1>1, Constants DEF CutSegment
<1>2. CASE ~(total + SEGMENT_HEADER <= NOISE_MAX_PLAINTEXT)
  <2> DEFINE end == Min({from + MAX_SEGMENT, total})
  <2>1. end = IF from + MAX_SEGMENT <= total THEN from + MAX_SEGMENT ELSE total
    <3> DEFINE S == {from + MAX_SEGMENT, total}
               m == IF from + MAX_SEGMENT <= total THEN from + MAX_SEGMENT ELSE total
    <3>1. m \in S /\ (\A y \in S : y >= m) /\ \A x \in S : (\A y \in S : y >= x) => x = m
      BY Constants
    <3>2. end = CHOOSE x \in S : \A y \in S : x <= y
      BY DEF Min
    <3> HIDE DEF end
    <3> QED
      BY <3>1, <3>2, Constants
  <2> HIDE DEF end
  <2>2. CutSegment(from, total) = [data |-> end - from, more |-> end < total]
    BY <1>2 DEF CutSegment, end
  <2>3. end - from \in 1 .. MAX_SEGMENT /\ from + (end - from) = end /\ end <= total
    BY <2>1, Constants
  <2>4. (end < total) \in BOOLEAN
    OBVIOUS
  <2>5. CutSegment(from, total).data = end - from /\ CutSegment(from, total).more = (end < total)
    BY <2>2
  <2> QED
    BY <2>3, <2>4, <2>5, Zenon
<1> QED
  BY <1>1, <1>2

LEMMA SendSegmentInv ==
  ASSUME IInv, SendSegment
  PROVE  IInv'
<1> DEFINE s == CutSegment(written, Total)
           f == [of |-> writing, data |-> s.data, more |-> s.more, nonce |-> wnonce]
<1>1. Types /\ Carried /\ Splitting /\ Chained /\ Compacted
  BY TypeParts DEF IInv
<1>2. /\ ~cut /\ ~Done
      /\ written' = written + s.data /\ wnonce' = wnonce + 1
      /\ frames' = Append(frames, f) /\ onWire' = onWire + FrameBytes(f)
      /\ UNCHANGED <<accepted, writing, cut, buffered, start, reader, rnonce, assembled, delivered>>
  BY DEF SendSegment, decoderVars, readerVars
<1>3. /\ s.data \in 1 .. MAX_SEGMENT /\ written + s.data <= Total
      /\ s.more \in BOOLEAN /\ (s.more <=> written + s.data < Total)
      /\ Total \in Nat /\ written \in Nat /\ written < Total
  <2>1. Total \in Nat /\ written \in Nat /\ written < Total /\ (Total <= MAX_SEGMENT => written = 0)
    BY <1>1, <1>2, TotalType DEF Splitting, Done, Types
  <2> HIDE DEF s
  <2>2. /\ s.data \in 1 .. MAX_SEGMENT /\ written + s.data <= Total
        /\ s.more \in BOOLEAN /\ (s.more <=> written + s.data < Total)
    BY <2>1, CutSegmentType DEF s
  <2> QED
    BY <2>1, <2>2
<1> HIDE DEF s
<1>4. f \in Frame /\ writing > 0 /\ writing \in 1 .. Len(accepted) /\ Len(accepted) \in Nat
  <2>1. writing # 0 /\ Len(accepted) \in Nat
    BY <1>1, <1>3, LenProperties DEF Total, Types
  <2> QED
    BY <1>1, <1>3, <2>1, Constants DEF Types, Frame
<1> HIDE DEF f
<1>5. /\ frames' \in Seq(Frame) /\ Len(frames') = Len(frames) + 1 /\ frames' # <<>>
      /\ Len(frames) \in Nat /\ frames'[Len(frames) + 1] = f
      /\ \A i \in 1 .. Len(frames) : frames'[i] = frames[i]
  BY <1>1, <1>2, <1>4, AppendProperties, LenProperties DEF Types
<1>6. FrameBytes(f) \in Nat /\ Bytes(frames') = Bytes(frames) + FrameBytes(f) /\ Bytes(frames) \in Nat
  BY <1>1, <1>2, <1>4, BytesAppend, BytesType, FrameBytesBound DEF Types
<1>7. Types'
  <2>1. written' \in Nat /\ wnonce' \in Nat /\ onWire' \in Nat /\ rnonce' \in 0 .. wnonce'
    BY <1>1, <1>2, <1>3, <1>6 DEF Types
  <2> QED
    BY <1>1, <1>2, <1>5, <2>1 DEF Types
<1>8. Carried' /\ Compacted'
  <2>1. Available \in Int /\ Available' = Available /\ onWire \in Nat
    BY <1>1, <1>2 DEF Types, Available
  <2>2. onWire' + Available' = onWire + Available + FrameBytes(f)
    BY <1>2, <1>6, <2>1
  <2> QED
    BY <1>1, <1>2, <1>6, <2>1, <2>2 DEF Carried, Compacted
<1>9. Total' = Total /\ (Done' <=> ~s.more)
  BY <1>2, <1>3 DEF Total, Done
<1>10. Splitting'
  <2>1. Total <= MAX_SEGMENT => ~s.more
    <3> SUFFICES ASSUME Total <= MAX_SEGMENT PROVE s.more = FALSE
      BY <1>3
    <3> QED
      BY <1>3, Constants DEF s, CutSegment
  <2> QED
    BY <1>2, <1>3, <1>9, <2>1 DEF Splitting
<1>11. ASSUME reader # "ended" PROVE Chained'
  <2> DEFINE n == Len(Segments)
  <2>1. /\ reader = "greet" => /\ frames # <<>> /\ Head(frames) = Greeting
                               /\ rnonce = 0 /\ assembled = Nothing /\ delivered = <<>>
        /\ wnonce = rnonce + n
        /\ assembled.of = IF assembled.data = 0 THEN {} ELSE {Len(delivered) + 1}
    BY <1>1, <1>11 DEF Chained
  <2>2. PICK env, at : Places(env, at)
    BY <1>1, <1>11 DEF Chained
  <2>3. /\ n \in Nat /\ Len(Segments') = n + 1 /\ Segments'[n + 1] = f
        /\ \A i \in 1 .. n : Segments'[i] = Segments[i]
        /\ reader = "greet" => Head(frames') = Greeting
    <3>1. CASE reader = "greet"
      <4>1. /\ Len(Tail(frames)) = Len(frames) - 1 /\ Len(Tail(frames')) = Len(frames)
            /\ Len(frames) > 0 /\ Head(frames') = frames'[1] /\ Head(frames) = frames[1]
            /\ \A i \in 1 .. Len(frames) - 1 : Tail(frames)[i] = frames[i + 1]
            /\ \A i \in 1 .. Len(frames) : Tail(frames')[i] = frames'[i + 1]
        BY <1>1, <1>5, <2>1, <3>1, HeadTailProperties, LenProperties, EmptySeq DEF Types
      <4>2. Segments = Tail(frames) /\ Segments' = Tail(frames')
        BY <1>2, <3>1 DEF Segments
      <4> QED
        BY <1>5, <2>1, <3>1, <4>1, <4>2
    <3>2. CASE reader # "greet"
      BY <1>2, <1>5, <3>2 DEF Segments
    <3> QED
      BY <3>1, <3>2
  <2>4. /\ env[n + 1] = writing /\ at[n + 1] = written
        /\ env \in [1 .. n + 1 -> Nat] /\ at \in [1 .. n + 1 -> Nat]
        /\ env[1] = Len(delivered) + 1 /\ at[1] = assembled.data
    BY <1>2, <2>2 DEF Places
  <2>5. \E e, a : Places(e, a)'
    <3>1. writing \in Nat /\ written' \in Nat
      BY <1>2, <1>3, <1>4
    <3>2. PICK e, a :
            /\ e = [i \in 1 .. n + 2 |-> IF i = n + 2 THEN IF s.more THEN writing ELSE writing + 1
                                         ELSE env[i]]
            /\ a = [i \in 1 .. n + 2 |-> IF i = n + 2 THEN IF s.more THEN written' ELSE 0
                                         ELSE at[i]]
      OBVIOUS
    <3>3. /\ e \in [1 .. n + 2 -> Nat] /\ a \in [1 .. n + 2 -> Nat]
          /\ \A i \in 1 .. n + 1 : e[i] = env[i] /\ a[i] = at[i]
          /\ e[n + 2] = (IF s.more THEN writing ELSE writing + 1)
          /\ a[n + 2] = (IF s.more THEN written' ELSE 0)
      BY <2>3, <2>4, <3>1, <3>2
    <3>4. f.of = writing /\ f.data = s.data /\ f.more = s.more /\ f.nonce = wnonce
      BY DEF f
    <3>5. ASSUME NEW i \in 1 .. n + 1
          PROVE  LET h == Segments'[i] IN
                 /\ h.of = e[i] /\ e[i] \in 1 .. Len(accepted)
                 /\ h.nonce = rnonce + i - 1
                 /\ h.data > 0 /\ a[i] + h.data <= accepted[e[i]]
                 /\ h.more <=> a[i] + h.data < accepted[e[i]]
                 /\ e[i + 1] = IF h.more THEN e[i] ELSE e[i] + 1
                 /\ a[i + 1] = IF h.more THEN a[i] + h.data ELSE 0
      <4>1. CASE i = n + 1
        <5>1. Segments'[i] = f /\ e[i] = writing /\ a[i] = written
          BY <2>3, <2>4, <3>3, <4>1
        <5>2. e[i + 1] = (IF s.more THEN writing ELSE writing + 1)
              /\ a[i + 1] = (IF s.more THEN written' ELSE 0)
          BY <2>3, <3>3, <4>1
        <5>3. Total = accepted[writing] /\ wnonce = rnonce + i - 1
          BY <1>1, <1>4, <2>1, <2>3, <4>1 DEF Total, Types
        <5> QED
          <6>1. /\ f.of = e[i] /\ e[i] \in 1 .. Len(accepted)
                /\ f.nonce = rnonce + i - 1
                /\ f.data > 0 /\ a[i] + f.data <= accepted[e[i]]
                /\ f.more <=> a[i] + f.data < accepted[e[i]]
            BY <1>3, <1>4, <3>4, <5>1, <5>3
          <6>2. /\ e[i + 1] = IF f.more THEN e[i] ELSE e[i] + 1
                /\ a[i + 1] = IF f.more THEN a[i] + f.data ELSE 0
            BY <1>2, <1>3, <3>4, <5>1, <5>2
          <6> QED
            BY <5>1, <6>1, <6>2
      <4>2. CASE i # n + 1
        <5>1. i \in 1 .. n /\ i \in 1 .. n + 1 /\ i + 1 \in 1 .. n + 1
          BY <2>3, <4>2
        <5>2. /\ Segments'[i] = Segments[i] /\ e[i] = env[i] /\ a[i] = at[i]
              /\ e[i + 1] = env[i + 1] /\ a[i + 1] = at[i + 1]
          BY <2>3, <3>3, <5>1
        <5>3. /\ Segments[i].of = env[i] /\ env[i] \in 1 .. Len(accepted)
              /\ Segments[i].nonce = rnonce + i - 1
              /\ Segments[i].data > 0 /\ at[i] + Segments[i].data <= accepted[env[i]]
              /\ Segments[i].more <=> at[i] + Segments[i].data < accepted[env[i]]
              /\ env[i + 1] = IF Segments[i].more THEN env[i] ELSE env[i] + 1
              /\ at[i + 1] = IF Segments[i].more THEN at[i] + Segments[i].data ELSE 0
          BY <2>2, <5>1 DEF Places
        <5> QED
          BY <5>2, <5>3
      <4> QED
        BY <4>1, <4>2
    <3>6. /\ e[1] = Len(delivered) + 1 /\ a[1] = assembled.data
          /\ e[n + 2] = (IF Done' THEN writing + 1 ELSE writing)
          /\ a[n + 2] = (IF Done' THEN 0 ELSE written')
      BY <1>3, <1>9, <2>3, <2>4, <3>3
    <3> DEFINE m == Len(Segments')
    <3>7. n + 1 = m /\ n + 2 = m + 1
      BY <2>3
    <3>8. /\ e \in [1 .. m + 1 -> Nat] /\ a \in [1 .. m + 1 -> Nat]
          /\ e[1] = Len(delivered') + 1 /\ a[1] = assembled'.data
          /\ e[m + 1] = (IF Done' THEN writing' + 1 ELSE writing')
          /\ a[m + 1] = (IF Done' THEN 0 ELSE written')
      BY <1>2, <3>3, <3>6, <3>7
    <3>9. \A i \in 1 .. m :
             LET h == Segments'[i] IN
             /\ h.of = e[i] /\ e[i] \in 1 .. Len(accepted')
             /\ h.nonce = rnonce' + i - 1
             /\ h.data > 0 /\ a[i] + h.data <= accepted'[e[i]]
             /\ h.more <=> a[i] + h.data < accepted'[e[i]]
             /\ e[i + 1] = IF h.more THEN e[i] ELSE e[i] + 1
             /\ a[i + 1] = IF h.more THEN a[i] + h.data ELSE 0
      BY <1>2, <3>5, <3>7
    <3>10. Places(e, a)'
      BY <3>8, <3>9 DEF Places
    <3> QED
      BY <3>10
  <2>6. wnonce' = rnonce' + Len(Segments')
    BY <1>1, <1>2, <2>1, <2>3 DEF Types
  <2> QED
    BY <1>2, <1>5, <2>1, <2>3, <2>5, <2>6 DEF Chained
<1>12. Chained'
  BY <1>2, <1>11 DEF Chained
<1> QED
  BY <1>7, <1>8, <1>10, <1>12, TypeParts DEF IInv

-----------------------------------------------------------------------------
(* The connection breaks, and the steps of the reader.                       *)

\* The chain depends on the reader, the frames and the writer only.
LEMMA ChainKept ==
  ASSUME Chained, Splitting,
         UNCHANGED <<writerVars, frames, rnonce, assembled, delivered>>,
         reader' = reader \/ reader' = "ended"
  PROVE  Chained' /\ Splitting'
<1> USE DEF writerVars
<1>1. Splitting' /\ Done' = Done
  BY DEF Splitting, Done, Total
<1>2. CASE reader' = reader
  <2>1. ASSUME NEW env, NEW at, Places(env, at) PROVE Places(env, at)'
    BY <1>1, <1>2, <2>1 DEF Places, Segments
  <2> QED
    BY <1>1, <1>2, <2>1 DEF Chained, Segments
<1>3. CASE reader' = "ended"
  BY <1>1, <1>3 DEF Chained
<1> QED
  BY <1>2, <1>3

LEMMA CutInv ==
  ASSUME IInv, NEW k \in 0 .. onWire, Cut(k)
  PROVE  IInv'
<1> USE DEF Cut, writerVars, decoderVars, readerVars
<1>1. Types /\ Carried /\ Splitting /\ Chained /\ Compacted
  BY TypeParts DEF IInv
<1>2. onWire \in Nat /\ onWire' \in Nat /\ onWire' <= onWire
  BY <1>1 DEF Types
<1>3. Types'
  BY <1>1, <1>2 DEF Types
<1>4. Carried' /\ Compacted'
  <2>1. Bytes(frames) \in Nat /\ Available \in Int /\ Available' = Available
    BY <1>1, BytesType DEF Types, Available
  <2> QED
    BY <1>1, <1>2, <2>1 DEF Carried, Compacted
<1> QED
  BY <1>1, <1>3, <1>4, ChainKept, TypeParts DEF IInv

\* Without a whole frame there are fewer bytes than a frame has.
LEMMA NoFrameBound ==
  ASSUME Types, Carried, ~HasFrame
  PROVE  /\ Available \in Nat
         /\ Available < LENGTH_PREFIX_BYTES + NOISE_MAX_PLAINTEXT + NOISE_TAG_LEN
<1>1. Available \in Nat /\ onWire \in Nat
  BY DEF Types, Available
<1>2. CASE frames = <<>>
  BY <1>1, <1>2, BytesEmpty, Constants DEF Carried
<1>3. CASE frames # <<>>
  <2>1. Head(frames) \in Frame
    BY <1>3, HeadTailProperties DEF Types
  <2> QED
    BY <1>1, <1>3, <2>1, FrameBytesBound, Constants DEF HasFrame
<1> QED
  BY <1>2, <1>3

LEMMA ReadInv ==
  ASSUME IInv, NEW k \in 1 .. READ_BYTES, Read(k)
  PROVE  IInv'
<1> USE DEF Read, writerVars, readerVars
<1>1. Types /\ Carried /\ Splitting /\ Chained /\ Compacted
  BY TypeParts DEF IInv
<1>2. /\ onWire \in Nat /\ onWire' \in Nat /\ onWire' = onWire - k
      /\ buffered \in Nat /\ start \in 0 .. buffered /\ k \in Nat
      /\ buffered' \in Nat /\ start' \in 0 .. buffered' /\ start' <= start
      /\ Available' = Available + k
  BY <1>1, Constants DEF Types, Idle, Available
<1>3. Types'
  BY <1>1, <1>2 DEF Types
<1>4. Carried'
  <2>1. Bytes(frames) \in Nat /\ Available \in Int
    BY <1>1, <1>2, BytesType DEF Types, Available
  <2> QED
    BY <1>1, <1>2, <2>1 DEF Carried
<1>5. Compacted'
  <2>1. Available \in Nat /\ Available < LENGTH_PREFIX_BYTES + NOISE_MAX_PLAINTEXT + NOISE_TAG_LEN
    BY <1>1, NoFrameBound
  <2> QED
    BY <1>1, <1>2, <2>1, Constants DEF Compacted
<1> QED
  BY <1>1, <1>3, <1>4, <1>5, ChainKept, TypeParts DEF IInv

\* What taking a whole frame does to the buffer.
LEMMA TakeFrameInv ==
  ASSUME Types, Carried, Compacted, HasFrame, TakeFrame,
         UNCHANGED <<onWire, cut>>, reader # "ended", reader' # "ended"
  PROVE  /\ frames' \in Seq(Frame) /\ buffered' \in Nat /\ start' \in 0 .. buffered'
         /\ Carried' /\ Compacted'
<1>1. frames # <<>> /\ Head(frames) \in Frame /\ frames' \in Seq(Frame) /\ frames' = Tail(frames)
  BY HeadTailProperties DEF Types, HasFrame, TakeFrame
<1>2. /\ FrameBytes(Head(frames)) \in Nat /\ Bytes(frames') \in Nat
      /\ Bytes(frames) = FrameBytes(Head(frames)) + Bytes(frames')
  BY <1>1, FrameBytesBound, BytesType, BytesTail DEF Types
<1>3. /\ buffered' \in Nat /\ start' \in 0 .. buffered' /\ start' < COMPACT_THRESHOLD
      /\ Available' = Available - FrameBytes(Head(frames)) /\ Available' \in Nat
  <2>1. start + FrameBytes(Head(frames)) \in 0 .. buffered
    BY <1>2 DEF HasFrame, Available, Types
  <2> DEFINE s == start + FrameBytes(Head(frames))
  <2>2. buffered' = TakeBytes(buffered, s)[1] /\ start' = TakeBytes(buffered, s)[2]
    BY DEF TakeFrame
  <2> HIDE DEF s
  <2>3. s \in Nat /\ buffered \in Nat /\ s <= buffered
    BY <2>1 DEF s, Types
  <2>4. /\ buffered' \in Nat /\ start' \in 0 .. buffered' /\ start' < COMPACT_THRESHOLD
        /\ buffered' - start' = buffered - s
    BY <2>2, <2>3, Constants DEF TakeBytes
  <2>5. start \in Nat /\ s = start + FrameBytes(Head(frames))
    BY DEF s, Types
  <2>6. Available' = buffered' - start' /\ Available = buffered - start
    BY DEF Available
  <2>7. /\ buffered - s = (buffered - start) - FrameBytes(Head(frames))
        /\ buffered - s \in Nat
    BY <1>2, <2>3, <2>5
  <2> QED
    BY <2>4, <2>6, <2>7
<1>4. Carried' /\ Compacted'
  <2>1. onWire \in Nat /\ Available \in Int
    BY DEF Types, Available
  <2> QED
    BY <1>2, <1>3, <2>1, Constants DEF Carried, Compacted
<1> QED
  BY <1>1, <1>3, <1>4

LEMMA FinishInv ==
  ASSUME IInv, Finish
  PROVE  IInv'
<1>1. Types /\ Carried /\ Splitting /\ Chained /\ Compacted
  BY TypeParts DEF IInv
<1>2. /\ reader = "greet" /\ HasFrame /\ TakeFrame /\ reader' = "open" /\ frames' = Tail(frames)
      /\ UNCHANGED <<accepted, writing, written, wnonce, onWire, cut, rnonce, assembled, delivered>>
  BY DEF Finish, TakeFrame, writerVars
<1>3. /\ frames' \in Seq(Frame) /\ buffered' \in Nat /\ start' \in 0 .. buffered'
      /\ Carried' /\ Compacted'
  BY <1>1, <1>2, TakeFrameInv
<1>4. Types'
  BY <1>1, <1>2, <1>3 DEF Types
<1>5. Splitting' /\ Done' = Done /\ Segments' = Segments
  BY <1>1, <1>2 DEF Splitting, Done, Total, Segments
<1>6. ASSUME NEW env, NEW at, Places(env, at) PROVE Places(env, at)'
  BY <1>2, <1>5, <1>6 DEF Places
<1>7. Chained'
  BY <1>1, <1>2, <1>5, <1>6 DEF Chained
<1> QED
  BY <1>3, <1>4, <1>5, <1>7, TypeParts DEF IInv

LEMMA HandshakeTimeoutInv ==
  ASSUME IInv, HandshakeTimeout
  PROVE  IInv'
<1> USE DEF HandshakeTimeout, writerVars, decoderVars
<1>1. Types /\ Carried /\ Splitting /\ Chained /\ Compacted
  BY TypeParts DEF IInv
<1>2. Types' /\ Carried' /\ Compacted'
  BY <1>1 DEF Types, Carried, Compacted, Available
<1> QED
  BY <1>1, <1>2, ChainKept, TypeParts DEF IInv

LEMMA ReaderEndsInv ==
  ASSUME IInv, ReaderEnds
  PROVE  IInv'
<1> USE DEF ReaderEnds, writerVars, decoderVars
<1>1. Types /\ Carried /\ Splitting /\ Chained /\ Compacted
  BY TypeParts DEF IInv
<1>2. Types' /\ Carried' /\ Compacted'
  BY <1>1 DEF Types, Carried, Compacted, Available
<1> QED
  BY <1>1, <1>2, ChainKept, TypeParts DEF IInv

\* The first segment under way is the one that the reader needs next.
LEMMA FirstSegment ==
  ASSUME Types, Chained, reader = "open", frames # <<>>
  PROVE  LET f == Head(frames)
             e == Len(delivered) + 1 IN
         /\ f \in Frame /\ f.nonce = rnonce /\ rnonce < wnonce
         /\ e \in 1 .. Len(accepted) /\ accepted[e] \in Nat /\ accepted[e] \in Sizes
         /\ Join(f) = [of |-> {e}, data |-> assembled.data + f.data]
         /\ f.data \in Nat /\ f.data > 0
         /\ assembled.data + f.data <= accepted[e]
         /\ f.more <=> assembled.data + f.data < accepted[e]
<1>1. PICK env, at : Places(env, at)
  BY DEF Chained
<1>2. /\ Segments = frames /\ Len(frames) \in Nat /\ Len(frames) > 0
      /\ frames[1] = Head(frames) /\ frames[1] \in Frame
  BY HeadTailProperties, LenProperties, EmptySeq, ElementOfSeq DEF Segments, Types
<1>3. 1 \in 1 .. Len(Segments)
  BY <1>2
<1>4. LET f == frames[1]
          e == Len(delivered) + 1 IN
      /\ f.of = e /\ e \in 1 .. Len(accepted) /\ f.nonce = rnonce + 1 - 1
      /\ f.data > 0 /\ assembled.data + f.data <= accepted[e]
      /\ f.more <=> assembled.data + f.data < accepted[e]
  BY <1>1, <1>2, <1>3 DEF Places
<1>5. rnonce \in Nat /\ wnonce = rnonce + Len(frames)
  BY <1>2 DEF Types, Chained
<1>6. Join(frames[1]) = [of |-> {Len(delivered) + 1}, data |-> assembled.data + frames[1].data]
  BY <1>4 DEF Join, Chained
<1>7. accepted[Len(delivered) + 1] \in Sizes
  BY <1>4, ElementOfSeq DEF Types
<1>8. frames[1].data \in Nat
  BY <1>2 DEF Frame
<1> QED
  BY <1>2, <1>4, <1>5, <1>6, <1>7, <1>8, Constants

LEMMA ReceiveSegmentInv ==
  ASSUME IInv, ReceiveSegment
  PROVE  IInv'
<1> DEFINE f == Head(frames)
           last == Len(delivered) + 1
<1>1. Types /\ Carried /\ Splitting /\ Chained /\ Compacted
  BY TypeParts DEF IInv
<1>2. /\ reader = "open" /\ HasFrame /\ TakeFrame /\ frames # <<>> /\ frames' = Tail(frames)
      /\ Join(f).data <= MAX_FRAME_BYTES
      /\ rnonce' = rnonce + 1
      /\ f.more => assembled' = Join(f) /\ delivered' = delivered
      /\ ~f.more => assembled' = Nothing /\ delivered' = Append(delivered, Join(f).data)
      /\ UNCHANGED <<accepted, writing, written, wnonce, onWire, cut, reader>>
  <2>1. ~(Join(f).data > MAX_FRAME_BYTES)
    BY DEF ReceiveSegment, Refused
  <2>2. f \in Frame /\ f.data \in Nat /\ Join(f).data \in Nat
    <3>1. f \in Frame
      BY <1>1, HeadTailProperties DEF ReceiveSegment, HasFrame, Types
    <3>2. assembled.data \in Nat /\ f.data \in Nat
      BY <1>1, <3>1, Constants DEF Types, Frame
    <3> QED
      BY <3>1, <3>2 DEF Join
  <2> QED
    BY <2>1, <2>2, Constants DEF ReceiveSegment, HasFrame, TakeFrame, writerVars
<1>3. /\ f \in Frame /\ rnonce < wnonce
      /\ last \in 1 .. Len(accepted) /\ accepted[last] \in Nat /\ accepted[last] \in Sizes
      /\ Join(f) = [of |-> {last}, data |-> assembled.data + f.data]
      /\ f.data \in Nat /\ f.data > 0
      /\ assembled.data + f.data <= accepted[last]
      /\ f.more <=> assembled.data + f.data < accepted[last]
      /\ f.more \in BOOLEAN /\ assembled.data \in Nat
  <2>1. f.more \in BOOLEAN /\ assembled.data \in Nat
    <3>1. f \in Frame
      BY <1>1, <1>2, HeadTailProperties DEF Types
    <3> QED
      BY <1>1, <3>1, Constants DEF Types, Frame
  <2> QED
    BY <1>1, <1>2, <2>1, FirstSegment
<1>4. /\ frames' \in Seq(Frame) /\ buffered' \in Nat /\ start' \in 0 .. buffered'
      /\ Carried' /\ Compacted'
  BY <1>1, <1>2, TakeFrameInv
<1>5. /\ delivered' \in Seq(Sizes)
      /\ Len(delivered') = IF f.more THEN Len(delivered) ELSE last
      /\ Len(delivered) \in Nat
  <2>1. ~f.more => Join(f).data = accepted[last]
    BY <1>3
  <2>2. Len(delivered) \in Nat /\ delivered \in Seq(Sizes)
    BY <1>1, LenProperties DEF Types
  <2>3. CASE f.more
    BY <1>2, <2>2, <2>3
  <2>4. CASE ~f.more
    <3>1. delivered' = Append(delivered, accepted[last])
      BY <1>2, <2>1, <2>4
    <3> QED
      BY <1>3, <2>2, <2>4, <3>1, AppendProperties
  <2> QED
    BY <2>2, <2>3, <2>4
<1>6. /\ assembled'.of = (IF f.more THEN {last} ELSE {})
      /\ assembled'.data = (IF f.more THEN assembled.data + f.data ELSE 0)
      /\ assembled' \in [of : SUBSET (1 .. MaxEnvelopes), data : 0 .. MAX_FRAME_BYTES]
  <2>1. last \in 1 .. MaxEnvelopes
    BY <1>1, <1>3, Constants, LenProperties DEF Types
  <2>2. CASE f.more
    BY <1>2, <1>3, <2>1, <2>2, Constants
  <2>3. CASE ~f.more
    BY <1>2, <2>3, Constants DEF Nothing
  <2> QED
    BY <2>2, <2>3
<1> HIDE DEF f, last
<1>7. Types'
  <2>1. rnonce' \in 0 .. wnonce'
    BY <1>1, <1>2, <1>3 DEF Types
  <2> QED
    BY <1>1, <1>2, <1>4, <1>5, <1>6, <2>1 DEF Types
<1>8. Splitting' /\ Done' = Done
  BY <1>1, <1>2 DEF Splitting, Done, Total
<1>9. Segments = frames /\ Segments' = frames' /\ frames[1] = f
  BY <1>1, <1>2, HeadTailProperties DEF Segments, f, Types
<1> DEFINE n == Len(frames')
<1>10. /\ Len(frames) = n + 1 /\ n \in Nat
       /\ \A i \in 1 .. n : frames'[i] = frames[i + 1]
  BY <1>1, <1>2, HeadTailProperties, LenProperties DEF Types
<1>11. /\ wnonce = rnonce + Len(frames)
       /\ rnonce \in Nat /\ wnonce' = rnonce' + Len(Segments')
  BY <1>1, <1>2, <1>9, <1>10 DEF Chained, Types
<1>12. \E e, a : Places(e, a)'
  <2>1. PICK env, at : Places(env, at)
    BY <1>1, <1>2 DEF Chained
  <2>2. /\ env \in [1 .. n + 2 -> Nat] /\ at \in [1 .. n + 2 -> Nat]
        /\ env[1] = last /\ at[1] = assembled.data
        /\ env[n + 2] = (IF Done THEN writing + 1 ELSE writing)
        /\ at[n + 2] = (IF Done THEN 0 ELSE written)
    <3>1. Len(Segments) + 1 = n + 2
      BY <1>9, <1>10
    <3> QED
      BY <2>1, <3>1 DEF Places, last
  <2>3. \A i \in 1 .. n + 1 :
          LET h == frames[i] IN
          /\ h.of = env[i] /\ env[i] \in 1 .. Len(accepted)
          /\ h.nonce = rnonce + i - 1
          /\ h.data > 0 /\ at[i] + h.data <= accepted[env[i]]
          /\ h.more <=> at[i] + h.data < accepted[env[i]]
          /\ env[i + 1] = IF h.more THEN env[i] ELSE env[i] + 1
          /\ at[i + 1] = IF h.more THEN at[i] + h.data ELSE 0
    BY <1>9, <1>10, <2>1 DEF Places
  <2>4. PICK e, a : /\ e = [i \in 1 .. n + 1 |-> env[i + 1]]
                    /\ a = [i \in 1 .. n + 1 |-> at[i + 1]]
    OBVIOUS
  <2>5. /\ e \in [1 .. n + 1 -> Nat] /\ a \in [1 .. n + 1 -> Nat]
        /\ \A i \in 1 .. n + 1 : e[i] = env[i + 1] /\ a[i] = at[i + 1]
    BY <1>10, <2>2, <2>4
  <2>6. e[1] = Len(delivered') + 1 /\ a[1] = assembled'.data
    <3>1. /\ env[2] = IF f.more THEN env[1] ELSE env[1] + 1
          /\ at[2] = IF f.more THEN at[1] + f.data ELSE 0
      <4>1. 1 \in 1 .. n + 1 /\ 1 + 1 = 2
        BY <1>10
      <4> QED
        BY <1>9, <2>3, <4>1
    <3>2. e[1] = env[2] /\ a[1] = at[2]
      BY <1>10, <2>5
    <3> QED
      BY <1>5, <1>6, <2>2, <3>1, <3>2 DEF last
  <2>7. /\ e[n + 1] = (IF Done' THEN writing' + 1 ELSE writing')
        /\ a[n + 1] = (IF Done' THEN 0 ELSE written')
    <3>1. e[n + 1] = env[n + 2] /\ a[n + 1] = at[n + 2]
      BY <1>10, <2>5
    <3> QED
      BY <1>2, <1>8, <2>2, <3>1
  <2>8. \A i \in 1 .. n :
          LET h == frames'[i] IN
          /\ h.of = e[i] /\ e[i] \in 1 .. Len(accepted')
          /\ h.nonce = rnonce' + i - 1
          /\ h.data > 0 /\ a[i] + h.data <= accepted'[e[i]]
          /\ h.more <=> a[i] + h.data < accepted'[e[i]]
          /\ e[i + 1] = IF h.more THEN e[i] ELSE e[i] + 1
          /\ a[i + 1] = IF h.more THEN a[i] + h.data ELSE 0
    <3> SUFFICES ASSUME NEW i \in 1 .. n
                 PROVE  LET h == frames'[i] IN
                        /\ h.of = e[i] /\ e[i] \in 1 .. Len(accepted')
                        /\ h.nonce = rnonce' + i - 1
                        /\ h.data > 0 /\ a[i] + h.data <= accepted'[e[i]]
                        /\ h.more <=> a[i] + h.data < accepted'[e[i]]
                        /\ e[i + 1] = IF h.more THEN e[i] ELSE e[i] + 1
                        /\ a[i + 1] = IF h.more THEN a[i] + h.data ELSE 0
      OBVIOUS
    <3> DEFINE j == i + 1
    <3>1. j \in 1 .. n + 1 /\ i \in 1 .. n + 1 /\ frames'[i] = frames[j]
      BY <1>10
    <3>2. e[i] = env[j] /\ a[i] = at[j] /\ e[i + 1] = env[j + 1] /\ a[i + 1] = at[j + 1]
      BY <1>10, <2>5
    <3>3. rnonce' + i - 1 = rnonce + j - 1
      BY <1>2, <1>10, <1>11
    <3> HIDE DEF j
    <3>4. /\ frames[j].of = env[j] /\ env[j] \in 1 .. Len(accepted)
          /\ frames[j].nonce = rnonce + j - 1
          /\ frames[j].data > 0 /\ at[j] + frames[j].data <= accepted[env[j]]
          /\ frames[j].more <=> at[j] + frames[j].data < accepted[env[j]]
          /\ env[j + 1] = IF frames[j].more THEN env[j] ELSE env[j] + 1
          /\ at[j + 1] = IF frames[j].more THEN at[j] + frames[j].data ELSE 0
      BY <2>3, <3>1
    <3>5. accepted' = accepted
      BY <1>2
    <3> QED
      BY <3>1, <3>2, <3>3, <3>4, <3>5
  <2>9. Places(e, a)'
    BY <1>9, <2>5, <2>6, <2>7, <2>8 DEF Places
  <2> QED
    BY <2>9
<1>13. assembled'.of = IF assembled'.data = 0 THEN {} ELSE {Len(delivered') + 1}
  <2>1. CASE f.more
    <3>1. assembled.data + f.data # 0
      BY <1>3
    <3> QED
      BY <1>5, <1>6, <2>1, <3>1 DEF last
  <2>2. CASE ~f.more
    BY <1>6, <2>2
  <2> QED
    BY <2>1, <2>2
<1>14. Chained'
  BY <1>2, <1>11, <1>12, <1>13 DEF Chained
<1> QED
  BY <1>4, <1>7, <1>8, <1>14, TypeParts DEF IInv

LEMMA NextInv == IInv /\ [Next]_vars => IInv'
<1> SUFFICES ASSUME IInv, [Next]_vars PROVE IInv'
  OBVIOUS
<1>1. ASSUME NEW size \in Sizes, Put(size) PROVE IInv'
  BY <1>1, PutInv
<1>2. CASE Begin
  BY <1>2, BeginInv
<1>3. CASE SendSegment
  BY <1>3, SendSegmentInv
<1>4. ASSUME NEW k \in 0 .. onWire, Cut(k) PROVE IInv'
  BY <1>4, CutInv
<1>5. ASSUME NEW k \in 1 .. READ_BYTES, Read(k) PROVE IInv'
  BY <1>5, ReadInv
<1>6. CASE Finish
  BY <1>6, FinishInv
<1>7. CASE HandshakeTimeout
  BY <1>7, HandshakeTimeoutInv
<1>8. CASE ReceiveSegment
  BY <1>8, ReceiveSegmentInv
<1>9. CASE ReaderEnds
  BY <1>9, ReaderEndsInv
<1>10. CASE UNCHANGED vars
  <2> USE <1>10 DEF vars, writerVars, decoderVars, readerVars
  <2>1. Types /\ Carried /\ Splitting /\ Chained /\ Compacted
    BY TypeParts DEF IInv
  <2>2. Types' /\ Carried' /\ Compacted'
    BY <2>1 DEF Types, Carried, Compacted, Available
  <2>3. Chained' /\ Splitting'
    BY <2>1, ChainKept
  <2> QED
    BY <2>2, <2>3, TypeParts DEF IInv
<1> QED
  BY <1>1, <1>2, <1>3, <1>4, <1>5, <1>6, <1>7, <1>8, <1>9, <1>10 DEF Next, ReadSome

\* The invariant holds in every state.
THEOREM Invariance == Spec => []IInv
  BY InitInv, NextInv, PTL DEF Spec

\* Every variable has its type, and as long as the connection lives no byte of a
\* frame is lost between the writer and the reader.
THEOREM TypeCorrect == Spec => []TypeOK
<1>1. IInv => TypeOK
  BY DEF IInv
<1> QED
  BY <1>1, Invariance, PTL

\* The reader's buffer holds a frame that is not complete, one read, and less
\* than COMPACT_THRESHOLD bytes that were taken (FrameDecoder, read_frame).
THEOREM BufferIsBounded == Spec => []BufferBounded
<1>1. IInv => BufferBounded
  BY Constants, TypeParts DEF IInv, Types, Compacted, Available, BufferBounded
<1> QED
  BY <1>1, Invariance, PTL

-----------------------------------------------------------------------------
(* The refinement. *)

LEMMA StreamInit == Init => Stream!Init
  BY DEF Init, Stream!Init

\* Only a segment of an envelope that is too large is refused.
LEMMA RefusedIsTooLarge ==
  ASSUME Types, Chained, reader = "open", frames # <<>>, Refused(Head(frames))
  PROVE  Stream!Waiting /\ Stream!Next1 > MAX_FRAME_BYTES
<1> DEFINE f == Head(frames)
           e == Len(delivered) + 1
<1>1. /\ f \in Frame /\ f.nonce = rnonce
      /\ e \in 1 .. Len(accepted) /\ accepted[e] \in Nat
      /\ Join(f) = [of |-> {e}, data |-> assembled.data + f.data]
      /\ f.data \in Nat /\ assembled.data + f.data <= accepted[e]
      /\ f.more <=> assembled.data + f.data < accepted[e]
  BY FirstSegment
<1>2. assembled.data \in Nat /\ Len(delivered) \in Nat /\ Len(accepted) \in Nat
  BY LenProperties, Constants DEF Types
<1>3. ~f.more => Whole(Join(f))
  BY <1>1, <1>2 DEF Whole
<1>4. assembled.data + f.data > MAX_FRAME_BYTES
  BY <1>1, <1>3 DEF Refused
<1>5. accepted[e] > MAX_FRAME_BYTES
  BY <1>1, <1>2, <1>4, Constants
<1> QED
  BY <1>1, <1>2, <1>5 DEF Stream!Waiting, Stream!Next1

LEMMA StreamStep == IInv /\ [Next]_vars => [Stream!Next]_(Stream!vars)
<1> SUFFICES ASSUME IInv, [Next]_vars PROVE Stream!Next \/ UNCHANGED Stream!vars
  OBVIOUS
<1> USE DEF Stream!vars, writerVars, decoderVars, readerVars
<1>1. Types /\ Chained
  BY TypeParts DEF IInv
<1>2. ASSUME NEW size \in Sizes, Put(size) PROVE Stream!Put(size)
  BY <1>2 DEF Put, Stream!Put
<1>3. CASE Begin
  BY <1>3 DEF Begin
<1>4. CASE SendSegment
  BY <1>4 DEF SendSegment
<1>5. ASSUME NEW k \in 0 .. onWire, Cut(k) PROVE Stream!Cut
  BY <1>5 DEF Cut, Stream!Cut
<1>6. ASSUME NEW k \in 1 .. READ_BYTES, Read(k) PROVE UNCHANGED Stream!vars
  BY <1>6 DEF Read
<1>7. CASE Finish
  BY <1>7 DEF Finish
<1>8. CASE HandshakeTimeout
  <2>1. ~cut /\ cut' = TRUE /\ (reader' = "ended") = TRUE /\ UNCHANGED <<accepted, delivered>>
    BY <1>8 DEF HandshakeTimeout
  <2>2. Stream!Cut
    BY <2>1 DEF Stream!Cut
  <2> QED
    BY <2>2 DEF Stream!Next
<1>9. CASE ReceiveSegment
  <2> DEFINE f == Head(frames)
             e == Len(delivered) + 1
  <2>1. reader = "open" /\ frames # <<>> /\ ~Refused(f)
    BY <1>9 DEF ReceiveSegment, HasFrame
  <2>2. CASE f.more
    BY <1>9, <2>2 DEF ReceiveSegment
  <2>3. CASE ~f.more
    <3>1. /\ e \in 1 .. Len(accepted) /\ accepted[e] \in Nat
          /\ Join(f).data = assembled.data + f.data
          /\ f.data \in Nat /\ assembled.data + f.data <= accepted[e]
          /\ ~(assembled.data + f.data < accepted[e])
      BY <1>1, <2>1, <2>3, FirstSegment
    <3>2. assembled.data \in Nat /\ Len(delivered) \in Nat /\ Len(accepted) \in Nat
      BY <1>1, LenProperties, Constants DEF Types
    <3>3. Join(f).data = accepted[e]
      BY <3>1, <3>2
    <3>4. accepted[e] <= MAX_FRAME_BYTES
      BY <2>1, <3>1, <3>3, Constants DEF Refused
    <3>5. /\ delivered' = Append(delivered, Join(f).data)
          /\ UNCHANGED <<accepted, cut, reader>>
      BY <1>9, <2>3 DEF ReceiveSegment
    <3>6. Stream!Take
      BY <2>1, <3>1, <3>2, <3>3, <3>4, <3>5 DEF Stream!Take, Stream!Waiting, Stream!Next1
    <3> QED
      BY <3>6 DEF Stream!Next
  <2> QED
    BY <2>2, <2>3
<1>10. CASE ReaderEnds
  <2>1. CASE cut
    <3>1. /\ ~(reader = "ended") /\ (reader' = "ended") = TRUE
          /\ UNCHANGED <<accepted, delivered, cut>>
      BY <1>10 DEF ReaderEnds
    <3>2. Stream!End
      BY <2>1, <3>1 DEF Stream!End
    <3> QED
      BY <3>2 DEF Stream!Next
  <2>2. CASE ~cut
    <3>1. Stream!Waiting /\ Stream!Next1 > MAX_FRAME_BYTES
      BY <1>1, <1>10, <2>2, RefusedIsTooLarge DEF ReaderEnds, HasFrame
    <3>2. Stream!End
      BY <1>10, <2>2, <3>1 DEF ReaderEnds, Stream!End
    <3> QED
      BY <3>2 DEF Stream!Next
  <2> QED
    BY <2>1, <2>2 DEF Stream!Next
<1>11. CASE UNCHANGED vars
  BY <1>11 DEF vars
<1> QED
  BY <1>2, <1>3, <1>4, <1>5, <1>6, <1>7, <1>8, <1>9, <1>10, <1>11
     DEF Next, ReadSome, Stream!Next

\* Whatever the sizes and wherever TCP breaks the bytes, envelopes arrive whole,
\* in order and once, the reader gives the stream up only when the connection is
\* cut or an envelope is too large, and nothing comes out afterwards
\* (send_envelope, FrameDecoder, recv_envelope, connect_out).
THEOREM StreamIsFifo == Spec => Stream!Safety
  BY StreamInit, StreamStep, Invariance, PTL DEF Spec, Stream!Safety

=============================================================================
