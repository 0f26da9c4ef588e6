--------------------------- MODULE TransferProofs ---------------------------
(***************************************************************************)
(* Proofs about Transfer for any transfers, files and faults.              *)
(***************************************************************************)
EXTENDS Transfer, FiniteSetTheorems, SequenceTheorems, TLAPS

\* The files that were asked for, are being streamed, and are on their way with
\* their end.
AskedFiles(t) == {m.file : m \in {x \in Range(toA[t]) : x.kind = "request"}}
StreamFiles(t) == IF sState[t] = "streaming" THEN {sEntry[t]} ELSE {}
DoneFiles(t) == {m.file : m \in {x \in Range(toB[t]) : x.kind = "done"}}

\* The entries a session has still to receive, and those it has not opened yet.
Left(t) == IF rState[t] \in {"none", "pending"} THEN EntriesOf(t) ELSE Range(todo[t])
Future(t) == IF rState[t] = "waiting" THEN Left(t) \ {Current(t)} ELSE Left(t)

\* A file is asked for once.
Once(q) ==
    \A i, j \in 1 .. Len(q) :
        q[i].kind = "request" /\ q[j].kind = "request" /\ q[i].file = q[j].file => i = j

\* Nothing happens before the offer.
Begun(t) ==
    sState[t] = "none" => rState[t] = "none" /\ toA[t] = <<>> /\ toB[t] = <<>> /\ served[t] = {}

Todo(t) ==
    /\ IsInjective(todo[t]) /\ Range(todo[t]) \subseteq EntriesOf(t)
    /\ rState[t] \notin {"setup", "opening", "waiting"} => todo[t] = <<>>

\* A file is opened, asked for, streamed and done with, one after the other.
Stages(t) ==
    /\ Once(toA[t])
    /\ AskedFiles(t) \cap StreamFiles(t) = {} /\ AskedFiles(t) \cap DoneFiles(t) = {}
    /\ StreamFiles(t) \cap DoneFiles(t) = {}
    /\ AskedFiles(t) \cup StreamFiles(t) \cup DoneFiles(t) \subseteq EntriesOf(t) \ Future(t)

\* While the sender is not done some file is not: it has not served all of them,
\* and when it has failed the receiver will always miss one.
Owed(t) ==
    /\ served[t] \subseteq EntriesOf(t)
    /\ EntriesOf(t) \subseteq Files =>
         /\ sState[t] \in {"open", "streaming"} =>
              /\ served[t] # EntriesOf(t) /\ DoneFiles(t) \subseteq served[t]
              /\ rState[t] # "failed" => EntriesOf(t) \ Left(t) \subseteq served[t]
         /\ sState[t] = "failed" => rState[t] = "failed" \/ ~(Left(t) \subseteq DoneFiles(t))

SessionOK(t) == Begun(t) /\ Todo(t) /\ Stages(t) /\ Owed(t)

IInv == TypeOK /\ \A t \in Tokens : SessionOK(t)

-----------------------------------------------------------------------------
(* Lemmas about constants, messages and sequences. *)

LEMMA Given ==
  /\ AnyFile \in Files /\ Files \cap Dirs = {}
  /\ \A t \in Tokens : /\ Manifest[t] \in Seq(Entries) /\ Manifest[t] # <<>>
                       /\ IsInjective(Manifest[t])
  /\ \A f \in Files : Size[f] \in Nat /\ Size[f] >= 1
  /\ MaxVersion \in Nat /\ MaxVersion >= 1
  /\ Names \subseteq Nat /\ (Tokens # {} => 1 \in Names)
  /\ NoFile \notin Inodes
<1>1. Cardinality(Tokens) \in Nat /\ (Tokens # {} => Cardinality(Tokens) # 0)
  BY TransfersAssumption, FS_CardinalityType, FS_EmptySet
<1>2. Names \subseteq Nat /\ (Tokens # {} => 1 \in Names)
  BY <1>1 DEF Names
<1>3. AnyFile \in Files
  BY TransfersAssumption DEF AnyFile
<1> QED
  BY <1>2, <1>3, TransfersAssumption DEF Inodes

LEMMA MessageParts ==
  /\ \A m \in Messages :
       /\ m.kind \in {"offer", "abort", "request", "chunk", "done"}
       /\ m.kind = "request" => m.file \in Files /\ m.offset \in Nat
       /\ m.kind = "chunk" => m.file \in Files /\ m.at \in Nat /\ m.block \in Blocks
       /\ m.kind = "done" => m.file \in Files /\ m.hash \in Seq(Blocks)
  /\ [kind |-> "offer"] \in Messages
  /\ Abort \in Messages /\ Abort.kind = "abort"
  /\ \A f \in Files, n \in Nat : [kind |-> "request", file |-> f, offset |-> n] \in Messages
  /\ \A f \in Files, n \in Nat, b \in Blocks :
       [kind |-> "chunk", file |-> f, at |-> n, block |-> b] \in Messages
  /\ \A f \in Files, h \in Seq(Blocks) : [kind |-> "done", file |-> f, hash |-> h] \in Messages
  BY DEF Messages, Abort

LEMMA AppendParts ==
  ASSUME NEW S, NEW q \in Seq(S), NEW m \in S
  PROVE  /\ Append(q, m) \in Seq(S) /\ Append(q, m) # <<>> /\ Len(q) \in Nat
         /\ Len(Append(q, m)) = Len(q) + 1
         /\ \A i \in 1 .. Len(q) : Append(q, m)[i] = q[i]
         /\ Append(q, m)[Len(q) + 1] = m
         /\ Range(Append(q, m)) = Range(q) \cup {m}
<1>1. /\ Append(q, m) \in Seq(S) /\ Len(Append(q, m)) = Len(q) + 1 /\ Len(q) \in Nat
      /\ \A i \in 1 .. Len(q) : Append(q, m)[i] = q[i]
      /\ Append(q, m)[Len(q) + 1] = m
      /\ DOMAIN Append(q, m) = 1 .. Len(q) + 1 /\ DOMAIN q = 1 .. Len(q)
  BY AppendProperties, LenProperties
<1>2. Append(q, m) # <<>>
  BY <1>1, EmptySeq
<1>3. \A i \in DOMAIN Append(q, m) : i \in DOMAIN q \/ i = Len(q) + 1
  BY <1>1
<1>4. DOMAIN q \subseteq DOMAIN Append(q, m) /\ Len(q) + 1 \in DOMAIN Append(q, m)
  BY <1>1
<1>5. Range(Append(q, m)) \subseteq Range(q) \cup {m}
  BY <1>1, <1>3 DEF Range
<1>6. Range(q) \cup {m} \subseteq Range(Append(q, m))
  BY <1>1, <1>4 DEF Range
<1> QED
  BY <1>1, <1>2, <1>5, <1>6

LEMMA TailParts ==
  ASSUME NEW S, NEW q \in Seq(S), q # <<>>
  PROVE  /\ Head(q) \in S /\ Tail(q) \in Seq(S)
         /\ Len(q) \in Nat /\ Len(q) >= 1 /\ Len(Tail(q)) = Len(q) - 1
         /\ Head(q) = q[1] /\ \A i \in 1 .. Len(Tail(q)) : Tail(q)[i] = q[i + 1]
         /\ Range(q) = {Head(q)} \cup Range(Tail(q))
<1>1. /\ Head(q) \in S /\ Tail(q) \in Seq(S) /\ Len(q) \in Nat \ {0}
      /\ Len(Tail(q)) = Len(q) - 1 /\ Head(q) = q[1]
      /\ \A i \in 1 .. Len(Tail(q)) : Tail(q)[i] = q[i + 1]
      /\ DOMAIN q = 1 .. Len(q) /\ DOMAIN Tail(q) = 1 .. Len(q) - 1
  BY HeadTailProperties, LenProperties, EmptySeq
<1>2. \A i \in DOMAIN q : i = 1 \/ (i - 1 \in DOMAIN Tail(q) /\ q[i] = Tail(q)[i - 1])
  BY <1>1
<1>3. Range(q) \subseteq {Head(q)} \cup Range(Tail(q))
  BY <1>1, <1>2 DEF Range
<1>4. 1 \in DOMAIN q /\ \A i \in DOMAIN Tail(q) : i + 1 \in DOMAIN q /\ Tail(q)[i] = q[i + 1]
  BY <1>1
<1>5. {Head(q)} \cup Range(Tail(q)) \subseteq Range(q)
  BY <1>1, <1>4 DEF Range
<1> QED
  BY <1>1, <1>3, <1>5

LEMMA PrefixParts ==
  ASSUME NEW S, NEW q \in Seq(S), NEW n \in 0 .. Len(q)
  PROVE  /\ SubSeq(q, 1, n) \in Seq(S) /\ Len(SubSeq(q, 1, n)) = n
         /\ \A i \in 1 .. n : SubSeq(q, 1, n)[i] = q[i]
         /\ Range(SubSeq(q, 1, n)) \subseteq Range(q)
<1>1. /\ Len(q) \in Nat /\ DOMAIN q = 1 .. Len(q) /\ n \in Nat /\ n <= Len(q)
      /\ \A i \in 1 .. n : q[i] \in S
  BY LenProperties, ElementOfSeq
<1>2. /\ SubSeq(q, 1, n) \in Seq(S) /\ Len(SubSeq(q, 1, n)) = n
      /\ \A i \in 1 .. n : SubSeq(q, 1, n)[i] = q[i]
  BY <1>1, SubSeqProperties
<1>3. DOMAIN SubSeq(q, 1, n) = 1 .. n
  BY <1>2, LenProperties
<1>4. Range(SubSeq(q, 1, n)) \subseteq Range(q)
  BY <1>1, <1>2, <1>3 DEF Range
<1> QED
  BY <1>2, <1>4

LEMMA NothingIn == Range(<<>>) = {} /\ IsInjective(<<>>)
  BY DEF Range, IsInjective

LEMMA InjectiveTail ==
  ASSUME NEW S, NEW q \in Seq(S), q # <<>>, IsInjective(q)
  PROVE  IsInjective(Tail(q)) /\ Range(Tail(q)) = Range(q) \ {Head(q)}
<1>1. /\ Len(q) \in Nat /\ Len(q) >= 1 /\ Len(Tail(q)) = Len(q) - 1 /\ Head(q) = q[1]
      /\ \A i \in 1 .. Len(Tail(q)) : Tail(q)[i] = q[i + 1]
      /\ DOMAIN q = 1 .. Len(q) /\ DOMAIN Tail(q) = 1 .. Len(q) - 1
      /\ Range(q) = {Head(q)} \cup Range(Tail(q))
  BY TailParts, LenProperties
<1>2. \A i \in DOMAIN Tail(q) : i \in Nat /\ i + 1 \in DOMAIN q /\ i + 1 # 1 /\ 1 \in DOMAIN q
                               /\ Tail(q)[i] = q[i + 1]
  BY <1>1
<1>3. \A i, j \in DOMAIN Tail(q) : Tail(q)[i] = Tail(q)[j] => i = j
  <2>1. \A i, j \in DOMAIN Tail(q) : Tail(q)[i] = Tail(q)[j] => i + 1 = j + 1
    BY <1>2 DEF IsInjective
  <2> QED
    BY <1>2, <2>1
<1>4. Head(q) \notin Range(Tail(q))
  BY <1>1, <1>2 DEF IsInjective, Range
<1> QED
  BY <1>1, <1>3, <1>4 DEF IsInjective

LEMMA OnceKept ==
  ASSUME NEW q \in Seq(Messages), Once(q)
  PROVE  /\ \A n \in 0 .. Len(q) : Once(SubSeq(q, 1, n))
         /\ q # <<>> => Once(Tail(q))
         /\ \A m \in Messages :
              (m.kind = "request" => \A x \in Range(q) : x.kind = "request" => x.file # m.file)
                => Once(Append(q, m))
<1>1. Len(q) \in Nat /\ DOMAIN q = 1 .. Len(q)
  BY LenProperties
<1>2. ASSUME NEW n \in 0 .. Len(q) PROVE Once(SubSeq(q, 1, n))
  <2>1. Len(SubSeq(q, 1, n)) = n /\ \A i \in 1 .. n : SubSeq(q, 1, n)[i] = q[i] /\ i \in 1 .. Len(q)
    BY <1>1, PrefixParts
  <2> QED
    BY <2>1 DEF Once
<1>3. ASSUME q # <<>> PROVE Once(Tail(q))
  <2>1. \A i \in 1 .. Len(Tail(q)) : i \in Nat /\ i + 1 \in 1 .. Len(q) /\ Tail(q)[i] = q[i + 1]
    BY <1>1, <1>3, TailParts
  <2>2. \A i, j \in 1 .. Len(Tail(q)) :
          Tail(q)[i].kind = "request" /\ Tail(q)[j].kind = "request"
            /\ Tail(q)[i].file = Tail(q)[j].file => i + 1 = j + 1
    BY <2>1 DEF Once
  <2> QED
    BY <2>1, <2>2 DEF Once
<1>4. ASSUME NEW m \in Messages,
             m.kind = "request" => \A x \in Range(q) : x.kind = "request" => x.file # m.file
      PROVE  Once(Append(q, m))
  <2>1. /\ Len(Append(q, m)) = Len(q) + 1 /\ Append(q, m)[Len(q) + 1] = m
        /\ \A i \in 1 .. Len(q) : Append(q, m)[i] = q[i] /\ q[i] \in Range(q)
    BY <1>1, AppendParts DEF Range
  <2>2. \A i \in 1 .. Len(Append(q, m)) : i \in 1 .. Len(q) \/ i = Len(q) + 1
    BY <1>1, <2>1
  <2> QED
    BY <1>4, <2>1, <2>2 DEF Once
<1> QED
  BY <1>2, <1>3, <1>4

-----------------------------------------------------------------------------
(* What the steps have in common. *)

LEMMA DataParts ==
  ASSUME TypeOK, NEW t \in Tokens
  PROVE  /\ toA[t] \in Seq(Messages) /\ toB[t] \in Seq(Messages)
         /\ todo[t] \in Seq(Entries) /\ rHash[t] \in Seq(Blocks) /\ sHash[t] \in Seq(Blocks)
         /\ sEntry[t] \in Files /\ Size[sEntry[t]] \in Nat /\ name[t] \in Names
         /\ Receiving(t) => todo[t] # <<>> /\ Current(t) \in Files /\ Destination(t) \in Paths
  BY Given DEF TypeOK, SenderTypeOK, NetTypeOK, SessionTypeOK, Destination, Paths

LEMMA SessionKept ==
  ASSUME NEW t \in Tokens, SessionOK(t),
         UNCHANGED <<sState[t], sEntry[t], served[t], rState[t], todo[t], toA[t], toB[t]>>
  PROVE  SessionOK(t)'
<1>1. AskedFiles(t)' = AskedFiles(t) /\ StreamFiles(t)' = StreamFiles(t)
      /\ DoneFiles(t)' = DoneFiles(t) /\ Left(t)' = Left(t)
  BY DEF AskedFiles, StreamFiles, DoneFiles, Left
<1>2. Future(t)' = Future(t)
  BY <1>1 DEF Future, Current
<1> QED
  BY <1>1, <1>2 DEF SessionOK, Begun, Todo, Stages, Owed

\* Messages are lost.
LEMMA SessionLoses ==
  ASSUME NEW t \in Tokens, SessionOK(t),
         UNCHANGED <<sState[t], sEntry[t], served[t], rState[t], todo[t]>>,
         Begun(t)', Once(toA[t])',
         AskedFiles(t)' \subseteq AskedFiles(t), DoneFiles(t)' \subseteq DoneFiles(t)
  PROVE  SessionOK(t)'
<1>1. StreamFiles(t)' = StreamFiles(t) /\ Left(t)' = Left(t)
  BY DEF StreamFiles, Left
<1>2. Future(t)' = Future(t)
  BY <1>1 DEF Future, Current
<1>3. Todo(t)' /\ Stages(t)'
  BY <1>1, <1>2 DEF SessionOK, Todo, Stages
<1>4. Owed(t)'
  BY <1>1 DEF SessionOK, Owed
<1> QED
  BY <1>3, <1>4 DEF SessionOK

\* sender_driver fails.
LEMMA SenderStops ==
  ASSUME NEW t \in Tokens, SessionOK(t), sState[t] \in {"open", "streaming"},
         sState'[t] = "failed", served'[t] = {}, UNCHANGED <<rState[t], todo[t]>>,
         Once(toA[t])',
         AskedFiles(t)' \subseteq AskedFiles(t), DoneFiles(t)' \subseteq DoneFiles(t)
  PROVE  SessionOK(t)'
<1>1. StreamFiles(t)' = {} /\ Left(t)' = Left(t)
  BY DEF StreamFiles, Left
<1>2. Future(t)' = Future(t)
  BY <1>1 DEF Future, Current
<1>3. Begun(t)' /\ Todo(t)' /\ Stages(t)'
  BY <1>1, <1>2 DEF SessionOK, Begun, Todo, Stages
<1>4. Owed(t)'
  <2>1. EntriesOf(t) \subseteq Files => rState[t] = "failed" \/ ~(Left(t) \subseteq DoneFiles(t))
    BY DEF SessionOK, Owed
  <2> QED
    BY <1>1, <2>1 DEF Owed
<1> QED
  BY <1>3, <1>4 DEF SessionOK

\* receiver_driver fails.
LEMMA ReceiverStops ==
  ASSUME NEW t \in Tokens, SessionOK(t), rState[t] # "none",
         rState'[t] = "failed", todo'[t] = <<>>, UNCHANGED <<sState[t], sEntry[t], served[t]>>,
         Once(toA[t])',
         AskedFiles(t)' \subseteq AskedFiles(t), DoneFiles(t)' \subseteq DoneFiles(t)
  PROVE  SessionOK(t)'
<1>1. StreamFiles(t)' = StreamFiles(t) /\ Left(t)' = {} /\ Future(t)' = {}
  BY NothingIn DEF StreamFiles, Left, Future
<1>2. Begun(t)' /\ Todo(t)' /\ Stages(t)'
  BY <1>1, NothingIn DEF SessionOK, Begun, Todo, Stages
<1>3. Owed(t)'
  BY <1>1 DEF SessionOK, Owed
<1> QED
  BY <1>2, <1>3 DEF SessionOK

LEMMA SenderEndsParts ==
  ASSUME TypeOK, NEW ts, SenderEnds(ts, "done") \/ SenderEnds(ts, "failed"), UNCHANGED source
  PROVE  /\ SenderTypeOK'
         /\ \A t \in Tokens :
              /\ t \in ts => sState'[t] \in {"done", "failed"} /\ served'[t] = {}
              /\ t \in ts /\ SenderEnds(ts, "failed") => sState'[t] = "failed"
              /\ t \notin ts => UNCHANGED <<sState[t], sEntry[t], sFrom[t], sHash[t], served[t]>>
<1>1. PICK how \in {"done", "failed"} :
        /\ SenderEnds(ts, how)
        /\ SenderEnds(ts, "failed") => SenderEnds(ts, "failed") /\ how = "failed"
  OBVIOUS
<1>2. \A t \in Tokens :
        /\ sState'[t] = IF t \in ts THEN how ELSE sState[t]
        /\ sEntry'[t] = IF t \in ts THEN AnyFile ELSE sEntry[t]
        /\ sFrom'[t] = IF t \in ts THEN 0 ELSE sFrom[t]
        /\ sHash'[t] = IF t \in ts THEN <<>> ELSE sHash[t]
        /\ served'[t] = IF t \in ts THEN {} ELSE served[t]
        /\ cancelled'[t] = (cancelled[t] /\ t \notin ts)
  BY <1>1 DEF SenderEnds, StreamEnds
<1>3. /\ sState' \in [Tokens -> {"none", "open", "streaming", "done", "failed"}]
      /\ sFrom' \in [Tokens -> Nat] /\ served' \in [Tokens -> SUBSET Files]
      /\ sEntry' \in [Tokens -> Files]
  BY <1>1, Given DEF SenderEnds, StreamEnds, TypeOK, SenderTypeOK
<1>4. sHash' \in [Tokens -> Seq(Blocks)]
  BY <1>1, EmptySeq DEF SenderEnds, StreamEnds, TypeOK, SenderTypeOK
<1>5. cancelled' \in [Tokens -> BOOLEAN]
  BY <1>1 DEF SenderEnds
<1>6. ASSUME NEW t \in Tokens PROVE Len(sHash'[t]) <= Size[sEntry'[t]]
  <2>1. Len(sHash[t]) <= Size[sEntry[t]] /\ Size[AnyFile] >= 0 /\ Len(<<>>) = 0
    BY Given, EmptySeq DEF TypeOK, SenderTypeOK
  <2> QED
    BY <1>2, <2>1
<1>7. source' \in [Files -> 1 .. MaxVersion]
  BY DEF TypeOK, SenderTypeOK
<1>8. SenderTypeOK'
  BY <1>3, <1>4, <1>5, <1>6, <1>7 DEF SenderTypeOK
<1> QED
  BY <1>1, <1>2, <1>8

LEMMA ReceiverEndsParts ==
  ASSUME TypeOK, NEW ts, NEW how \in {"done", "failed"}, ReceiverEnds(ts, how)
  PROVE  /\ SessionTypeOK'
         /\ \A t \in Tokens :
              /\ t \in ts => rState'[t] = how /\ todo'[t] = <<>>
              /\ t \notin ts => UNCHANGED <<rState[t], todo[t], name[t], inode[t], appending[t],
                                            rHash[t]>>
<1>1. \A t \in Tokens :
        /\ rState'[t] = IF t \in ts THEN how ELSE rState[t]
        /\ todo'[t] = IF t \in ts THEN <<>> ELSE todo[t]
        /\ name'[t] = IF t \in ts THEN 1 ELSE name[t]
        /\ inode'[t] = IF t \in ts THEN <<t, AnyFile>> ELSE inode[t]
        /\ rHash'[t] = IF t \in ts THEN <<>> ELSE rHash[t]
        /\ appending'[t] = (appending[t] /\ t \notin ts)
  BY DEF ReceiverEnds, EntryEnds
<1>2. /\ rState' \in [Tokens -> {"none", "pending", "setup", "opening", "waiting", "done", "failed"}]
      /\ appending' \in [Tokens -> BOOLEAN]
  BY DEF ReceiverEnds, EntryEnds, TypeOK, SessionTypeOK
<1>3. todo' \in [Tokens -> Seq(Entries)] /\ rHash' \in [Tokens -> Seq(Blocks)]
  BY EmptySeq DEF ReceiverEnds, EntryEnds, TypeOK, SessionTypeOK
<1>4. name' \in [Tokens -> Names] /\ inode' \in [Tokens -> Inodes]
  BY Given DEF ReceiverEnds, EntryEnds, TypeOK, SessionTypeOK, Inodes
<1>5. ASSUME NEW t \in Tokens, Receiving(t)' PROVE todo'[t] # <<>> /\ Current(t)' \in Files
  <2>1. t \notin ts /\ rState'[t] = rState[t] /\ todo'[t] = todo[t]
    BY <1>1, <1>5 DEF Receiving
  <2>2. Receiving(t)
    BY <1>5, <2>1 DEF Receiving
  <2> QED
    BY <2>1, <2>2 DEF TypeOK, SessionTypeOK, Current
<1>6. SessionTypeOK'
  BY <1>2, <1>3, <1>4, <1>5 DEF SessionTypeOK
<1>7. \A t \in Tokens : appending[t] \in BOOLEAN
  BY DEF TypeOK, SessionTypeOK
<1> QED
  BY <1>1, <1>6, <1>7

\* The queues: a message is sent, read, or lost.
LEMMA SentToReceiver ==
  ASSUME TypeOK, NEW t \in Tokens, NEW m \in Messages, ToReceiver(t, m)
  PROVE  /\ toB' \in [Tokens -> Seq(Messages)]
         /\ toB'[t] = Append(toB[t], m) /\ Range(toB'[t]) = Range(toB[t]) \cup {m}
         /\ \A u \in Tokens : u # t => toB'[u] = toB[u]
         /\ m.kind = "done" => DoneFiles(t)' = DoneFiles(t) \cup {m.file}
         /\ m.kind # "done" => DoneFiles(t)' = DoneFiles(t)
<1>1. toB[t] \in Seq(Messages) /\ toB' = [toB EXCEPT ![t] = Append(toB[t], m)]
  BY DEF ToReceiver, TypeOK, NetTypeOK
<1>2. Append(toB[t], m) \in Seq(Messages) /\ Range(Append(toB[t], m)) = Range(toB[t]) \cup {m}
  BY <1>1, AppendParts
<1>3. /\ toB' \in [Tokens -> Seq(Messages)] /\ toB'[t] = Append(toB[t], m)
      /\ \A u \in Tokens : u # t => toB'[u] = toB[u]
  BY <1>1, <1>2 DEF TypeOK, NetTypeOK
<1>4. Range(toB'[t]) = Range(toB[t]) \cup {m}
  BY <1>2, <1>3
<1> QED
  BY <1>3, <1>4 DEF DoneFiles

LEMMA SentToSender ==
  ASSUME TypeOK, NEW t \in Tokens, NEW m \in Messages, ToSender(t, m), Once(toA[t]),
         m.kind = "request" => m.file \notin AskedFiles(t)
  PROVE  /\ toA' \in [Tokens -> Seq(Messages)] /\ Once(toA[t])'
         /\ \A u \in Tokens : u # t => toA'[u] = toA[u]
         /\ m.kind = "request" => AskedFiles(t)' = AskedFiles(t) \cup {m.file}
         /\ m.kind # "request" => AskedFiles(t)' = AskedFiles(t)
<1>1. toA[t] \in Seq(Messages) /\ toA' = [toA EXCEPT ![t] = Append(toA[t], m)]
  BY DEF ToSender, TypeOK, NetTypeOK
<1>2. Append(toA[t], m) \in Seq(Messages) /\ Range(Append(toA[t], m)) = Range(toA[t]) \cup {m}
  BY <1>1, AppendParts
<1>3. /\ toA' \in [Tokens -> Seq(Messages)] /\ toA'[t] = Append(toA[t], m)
      /\ \A u \in Tokens : u # t => toA'[u] = toA[u]
  BY <1>1, <1>2 DEF TypeOK, NetTypeOK
<1>4. Range(toA'[t]) = Range(toA[t]) \cup {m}
  BY <1>2, <1>3
<1>5. m.kind = "request" => \A x \in Range(toA[t]) : x.kind = "request" => x.file # m.file
  BY DEF AskedFiles
<1>6. Once(Append(toA[t], m))
  BY <1>1, <1>5, OnceKept
<1>7. Once(toA[t])'
  BY <1>3, <1>6 DEF Once
<1> QED
  BY <1>3, <1>4, <1>7 DEF AskedFiles

LEMMA ToldReceiver ==
  ASSUME TypeOK, NEW t \in Tokens, TellReceiver(t)
  PROVE  /\ toB' \in [Tokens -> Seq(Messages)]
         /\ Range(toB'[t]) \subseteq Range(toB[t]) \cup {Abort}
         /\ \A u \in Tokens : u # t => toB'[u] = toB[u]
         /\ DoneFiles(t)' = DoneFiles(t)
<1>1. CASE ToReceiver(t, Abort)
  BY <1>1, SentToReceiver, MessageParts
<1>2. CASE UNCHANGED toB
  BY <1>2 DEF TypeOK, NetTypeOK, DoneFiles
<1> QED
  BY <1>1, <1>2 DEF TellReceiver

LEMMA ToldSender ==
  ASSUME TypeOK, NEW t \in Tokens, TellSender(t), Once(toA[t])
  PROVE  /\ toA' \in [Tokens -> Seq(Messages)] /\ Once(toA[t])'
         /\ \A u \in Tokens : u # t => toA'[u] = toA[u]
         /\ AskedFiles(t)' = AskedFiles(t)
<1>1. CASE ToSender(t, Abort)
  BY <1>1, SentToSender, MessageParts
<1>2. CASE UNCHANGED toA
  BY <1>2 DEF TypeOK, NetTypeOK, AskedFiles
<1> QED
  BY <1>1, <1>2 DEF TellSender

LEMMA ReadByReceiver ==
  ASSUME TypeOK, NEW t \in Tokens, toB[t] # <<>>, toB' = [toB EXCEPT ![t] = Tail(@)]
  PROVE  /\ toB' \in [Tokens -> Seq(Messages)]
         /\ Head(toB[t]) \in Messages /\ Head(toB[t]) \in Range(toB[t])
         /\ Range(toB'[t]) \subseteq Range(toB[t])
         /\ \A u \in Tokens : u # t => toB'[u] = toB[u]
         /\ DoneFiles(t)' \subseteq DoneFiles(t)
<1>1. toB[t] \in Seq(Messages) /\ toB' = [toB EXCEPT ![t] = Tail(toB[t])]
  BY DEF TypeOK, NetTypeOK
<1>2. /\ Head(toB[t]) \in Messages /\ Tail(toB[t]) \in Seq(Messages)
      /\ Range(toB[t]) = {Head(toB[t])} \cup Range(Tail(toB[t]))
  BY <1>1, TailParts
<1>3. /\ toB' \in [Tokens -> Seq(Messages)] /\ toB'[t] = Tail(toB[t])
      /\ \A u \in Tokens : u # t => toB'[u] = toB[u]
  BY <1>1, <1>2 DEF TypeOK, NetTypeOK
<1>4. Range(toB'[t]) \subseteq Range(toB[t])
  BY <1>2, <1>3
<1> QED
  BY <1>2, <1>3, <1>4 DEF DoneFiles

LEMMA ReadBySender ==
  ASSUME TypeOK, NEW t \in Tokens, toA[t] # <<>>, toA' = [toA EXCEPT ![t] = Tail(@)],
         Once(toA[t])
  PROVE  /\ toA' \in [Tokens -> Seq(Messages)] /\ Once(toA[t])'
         /\ Head(toA[t]) \in Messages /\ Head(toA[t]) \in Range(toA[t])
         /\ \A u \in Tokens : u # t => toA'[u] = toA[u]
         /\ AskedFiles(t)' \subseteq AskedFiles(t)
         /\ Head(toA[t]).kind = "request" =>
              Head(toA[t]).file \in AskedFiles(t) /\ Head(toA[t]).file \notin AskedFiles(t)'
<1>1. toA[t] \in Seq(Messages) /\ toA' = [toA EXCEPT ![t] = Tail(toA[t])]
  BY DEF TypeOK, NetTypeOK
<1>2. /\ Head(toA[t]) \in Messages /\ Tail(toA[t]) \in Seq(Messages)
      /\ Range(toA[t]) = {Head(toA[t])} \cup Range(Tail(toA[t]))
      /\ Head(toA[t]) = toA[t][1] /\ Len(toA[t]) \in Nat /\ Len(toA[t]) >= 1
      /\ Len(Tail(toA[t])) = Len(toA[t]) - 1
      /\ \A i \in 1 .. Len(Tail(toA[t])) : Tail(toA[t])[i] = toA[t][i + 1]
  BY <1>1, TailParts
<1>3. /\ toA' \in [Tokens -> Seq(Messages)] /\ toA'[t] = Tail(toA[t])
      /\ \A u \in Tokens : u # t => toA'[u] = toA[u]
  BY <1>1, <1>2 DEF TypeOK, NetTypeOK
<1>4. Once(Tail(toA[t]))
  BY <1>1, OnceKept
<1>5. Once(toA[t])'
  BY <1>3, <1>4 DEF Once
<1>6. ASSUME NEW x \in Range(Tail(toA[t])), x.kind = "request", Head(toA[t]).kind = "request"
      PROVE  x.file # Head(toA[t]).file
  <2>1. PICK i \in 1 .. Len(Tail(toA[t])) : x = Tail(toA[t])[i]
    BY <1>2, LenProperties DEF Range
  <2>2. x = toA[t][i + 1] /\ i + 1 \in 1 .. Len(toA[t]) /\ i + 1 # 1 /\ 1 \in 1 .. Len(toA[t])
    BY <1>2, <2>1
  <2> QED
    BY <1>2, <1>6, <2>2 DEF Once
<1>7. Range(toA'[t]) = Range(Tail(toA[t]))
  BY <1>3
<1> QED
  BY <1>2, <1>3, <1>5, <1>6, <1>7 DEF AskedFiles

LEMMA TypesKept ==
  ASSUME TypeOK
  PROVE  /\ UNCHANGED <<source, sState, sEntry, sFrom, sHash, served, cancelled>> => SenderTypeOK'
         /\ UNCHANGED <<rState, todo, name, inode, appending, rHash>> => SessionTypeOK'
         /\ UNCHANGED <<data, part, final>> => DiskTypeOK'
         /\ UNCHANGED toA => toA' \in [Tokens -> Seq(Messages)]
         /\ UNCHANGED toB => toB' \in [Tokens -> Seq(Messages)]
<1>1. UNCHANGED <<source, sState, sEntry, sFrom, sHash, served, cancelled>> => SenderTypeOK'
  BY DEF TypeOK, SenderTypeOK
<1>2. UNCHANGED <<rState, todo, name, inode, appending, rHash>> => SessionTypeOK'
  BY DEF TypeOK, SessionTypeOK, Receiving, Current
<1>3. UNCHANGED <<data, part, final>> => DiskTypeOK'
  BY DEF TypeOK, DiskTypeOK
<1> QED
  BY <1>1, <1>2, <1>3 DEF TypeOK, NetTypeOK

-----------------------------------------------------------------------------
LEMMA InitInv == Init => IInv
<1> SUFFICES ASSUME Init PROVE IInv
  OBVIOUS
<1> USE DEF Init
<1>1. SenderTypeOK
  BY Given, EmptySeq DEF SenderTypeOK
<1>2. NetTypeOK /\ DiskTypeOK
  BY EmptySeq DEF NetTypeOK, DiskTypeOK
<1>3. SessionTypeOK
  BY Given, EmptySeq DEF SessionTypeOK, Inodes, Receiving
<1>4. ASSUME NEW t \in Tokens PROVE SessionOK(t)
  <2>1. /\ AskedFiles(t) = {} /\ StreamFiles(t) = {} /\ DoneFiles(t) = {}
        /\ Left(t) = EntriesOf(t) /\ Future(t) = EntriesOf(t)
    BY NothingIn DEF AskedFiles, StreamFiles, DoneFiles, Left, Future
  <2>2. Once(toA[t])
    BY EmptySeq DEF Once
  <2>3. Begun(t) /\ Todo(t)
    BY NothingIn DEF Begun, Todo
  <2> QED
    BY <2>1, <2>2, <2>3 DEF SessionOK, Stages, Owed
<1> QED
  BY <1>1, <1>2, <1>3, <1>4 DEF IInv, TypeOK

-----------------------------------------------------------------------------
(* The network. *)

LEMMA BreakInv ==
  ASSUME IInv, NEW t \in Tokens, Break(t)
  PROVE  IInv'
<1> USE DEF IInv
<1>1. PICK i \in 0 .. Len(toB[t]), j \in 0 .. Len(toA[t]) :
        /\ toB' = [toB EXCEPT ![t] = SubSeq(toB[t], 1, i)]
        /\ toA' = [toA EXCEPT ![t] = SubSeq(toA[t], 1, j)]
  BY DEF Break, TypeOK, NetTypeOK
<1>2. /\ UNCHANGED <<source, sState, sEntry, sFrom, sHash, served, cancelled>>
      /\ UNCHANGED <<rState, todo, name, inode, appending, rHash>>
      /\ UNCHANGED <<data, part, final>>
  BY DEF Break, senderVars, sessionVars, diskVars
<1>3. /\ SubSeq(toB[t], 1, i) \in Seq(Messages) /\ Range(SubSeq(toB[t], 1, i)) \subseteq Range(toB[t])
      /\ SubSeq(toA[t], 1, j) \in Seq(Messages) /\ Range(SubSeq(toA[t], 1, j)) \subseteq Range(toA[t])
      /\ Once(SubSeq(toA[t], 1, j))
      /\ Len(toB[t]) \in Nat /\ Len(toA[t]) \in Nat
  BY DataParts, PrefixParts, OnceKept, LenProperties DEF SessionOK, Stages
<1>4. /\ toB' \in [Tokens -> Seq(Messages)] /\ toB'[t] = SubSeq(toB[t], 1, i)
      /\ toA' \in [Tokens -> Seq(Messages)] /\ toA'[t] = SubSeq(toA[t], 1, j)
      /\ \A u \in Tokens : u # t => toB'[u] = toB[u] /\ toA'[u] = toA[u]
  BY <1>1, <1>3 DEF TypeOK, NetTypeOK
<1>5. TypeOK'
  BY <1>2, <1>4, TypesKept DEF TypeOK, NetTypeOK
<1>6. SessionOK(t)'
  <2>1. Begun(t)'
    <3>1. toB[t] = <<>> => toB'[t] = <<>>
      BY <1>3, <1>4, EmptySeq, PrefixParts, SubSeqEmpty
    <3>2. toA[t] = <<>> => toA'[t] = <<>>
      BY <1>3, <1>4, EmptySeq, PrefixParts, SubSeqEmpty
    <3> QED
      BY <1>2, <3>1, <3>2 DEF SessionOK, Begun
  <2>2. AskedFiles(t)' \subseteq AskedFiles(t) /\ DoneFiles(t)' \subseteq DoneFiles(t)
    BY <1>3, <1>4 DEF AskedFiles, DoneFiles
  <2>3. Once(toA[t])'
    BY <1>3, <1>4 DEF Once
  <2> QED
    BY <1>2, <2>1, <2>2, <2>3, SessionLoses
<1>7. ASSUME NEW u \in Tokens, u # t PROVE SessionOK(u)'
  BY <1>2, <1>4, <1>7, SessionKept
<1> QED
  BY <1>5, <1>6, <1>7

\* A message is read and nothing comes of it.
LEMMA Ignored ==
  ASSUME IInv, NEW t \in Tokens,
         \/ toB[t] # <<>> /\ toB' = [toB EXCEPT ![t] = Tail(@)] /\ UNCHANGED toA
         \/ toA[t] # <<>> /\ toA' = [toA EXCEPT ![t] = Tail(@)] /\ UNCHANGED toB,
         UNCHANGED <<sState, sEntry, served, rState, todo>>
  PROVE  NetTypeOK' /\ \A u \in Tokens : SessionOK(u)'
<1> USE DEF IInv
<1>1. Once(toA[t]) /\ sState[t] # "none"
  BY DEF SessionOK, Stages, Begun
<1>2. /\ toB' \in [Tokens -> Seq(Messages)] /\ toA' \in [Tokens -> Seq(Messages)]
      /\ \A u \in Tokens : u # t => toA'[u] = toA[u] /\ toB'[u] = toB[u]
      /\ AskedFiles(t)' \subseteq AskedFiles(t) /\ DoneFiles(t)' \subseteq DoneFiles(t)
      /\ Once(toA[t])'
  <2>1. CASE toB[t] # <<>> /\ toB' = [toB EXCEPT ![t] = Tail(@)] /\ UNCHANGED toA
    <3>1. Once(toA[t])' /\ AskedFiles(t)' = AskedFiles(t)
      BY <1>1, <2>1 DEF Once, AskedFiles
    <3> QED
      BY <2>1, <3>1, ReadByReceiver, TypesKept
  <2>2. CASE toA[t] # <<>> /\ toA' = [toA EXCEPT ![t] = Tail(@)] /\ UNCHANGED toB
    <3>1. DoneFiles(t)' = DoneFiles(t)
      BY <2>2 DEF DoneFiles
    <3> QED
      BY <1>1, <2>2, <3>1, ReadBySender, TypesKept
  <2> QED
    BY <2>1, <2>2
<1>3. Begun(t)'
  BY <1>1 DEF Begun
<1>4. SessionOK(t)'
  BY <1>2, <1>3, SessionLoses
<1>5. ASSUME NEW u \in Tokens, u # t PROVE SessionOK(u)'
  BY <1>2, <1>5, SessionKept
<1> QED
  BY <1>2, <1>4, <1>5 DEF NetTypeOK

LEMMA DropInv ==
  ASSUME IInv, NEW t \in Tokens, Drop(t)
  PROVE  IInv'
<1>1. /\ \/ toB[t] # <<>> /\ toB' = [toB EXCEPT ![t] = Tail(@)] /\ UNCHANGED toA
         \/ toA[t] # <<>> /\ toA' = [toA EXCEPT ![t] = Tail(@)] /\ UNCHANGED toB
      /\ UNCHANGED <<source, sState, sEntry, sFrom, sHash, served, cancelled>>
      /\ UNCHANGED <<rState, todo, name, inode, appending, rHash>>
      /\ UNCHANGED <<data, part, final>>
  BY DEF Drop, senderVars, sessionVars, diskVars
<1>2. NetTypeOK' /\ \A u \in Tokens : SessionOK(u)'
  BY <1>1, Ignored
<1> QED
  BY <1>1, <1>2, TypesKept DEF IInv, TypeOK

-----------------------------------------------------------------------------
(* The sender. *)

LEMMA OfferInv ==
  ASSUME IInv, NEW t \in Tokens, Offer(t)
  PROVE  IInv'
<1> USE DEF IInv
<1>1. /\ sState[t] = "none" /\ ToReceiver(t, [kind |-> "offer"])
      /\ sState' = [sState EXCEPT ![t] = "open"]
      /\ UNCHANGED <<source, sEntry, sFrom, sHash, served, cancelled, toA>>
      /\ UNCHANGED <<rState, todo, name, inode, appending, rHash>>
      /\ UNCHANGED <<data, part, final>>
  BY DEF Offer, sessionVars, diskVars
<1>2. /\ toB' \in [Tokens -> Seq(Messages)] /\ DoneFiles(t)' = DoneFiles(t)
      /\ \A u \in Tokens : u # t => toB'[u] = toB[u]
  <2>1. [kind |-> "offer"].kind # "done"
    OBVIOUS
  <2> QED
    BY <1>1, <2>1, SentToReceiver, MessageParts
<1>3. /\ sState' \in [Tokens -> {"none", "open", "streaming", "done", "failed"}]
      /\ sState'[t] = "open" /\ \A u \in Tokens : u # t => sState'[u] = sState[u]
  BY <1>1 DEF TypeOK, SenderTypeOK
<1>4. SenderTypeOK'
  BY <1>1, <1>3 DEF TypeOK, SenderTypeOK
<1>5. TypeOK'
  BY <1>1, <1>2, <1>4, TypesKept DEF TypeOK, NetTypeOK
<1>6. SessionOK(t)'
  <2>1. rState[t] = "none" /\ toB[t] = <<>>
    BY <1>1 DEF SessionOK, Begun
  <2>2. /\ AskedFiles(t)' = AskedFiles(t) /\ StreamFiles(t)' = {} /\ Left(t)' = EntriesOf(t)
        /\ Future(t)' = Future(t) /\ Left(t) = EntriesOf(t)
    BY <1>1, <1>3, <2>1 DEF AskedFiles, StreamFiles, Left, Future
  <2>3. DoneFiles(t) = {} /\ EntriesOf(t) # {}
    <3>1. EntriesOf(t) # {}
      <4>1. Manifest[t] \in Seq(Entries) /\ Manifest[t] # <<>>
        BY Given
      <4>2. Head(Manifest[t]) \in Range(Manifest[t])
        BY <4>1, TailParts
      <4> QED
        BY <4>2 DEF EntriesOf
    <3> QED
      BY <2>1, <3>1, NothingIn DEF DoneFiles
  <2>4. served[t] = {}
    BY <1>1 DEF SessionOK, Begun
  <2>5. Begun(t)' /\ Todo(t)'
    BY <1>1, <1>3 DEF SessionOK, Begun, Todo
  <2>6. Stages(t)'
    BY <1>1, <1>2, <2>2 DEF SessionOK, Stages
  <2>7. Owed(t)'
    BY <1>1, <1>2, <1>3, <2>2, <2>3, <2>4 DEF Owed
  <2> QED
    BY <2>5, <2>6, <2>7 DEF SessionOK
<1>7. ASSUME NEW u \in Tokens, u # t PROVE SessionOK(u)'
  BY <1>1, <1>2, <1>3, <1>7, SessionKept
<1> QED
  BY <1>5, <1>6, <1>7

LEMMA HandleRequestInv ==
  ASSUME IInv, NEW t \in Tokens, HandleRequest(t)
  PROVE  IInv'
<1> USE DEF IInv
<1>1. /\ sState[t] = "open" /\ toA[t] # <<>> /\ Head(toA[t]).kind = "request"
      /\ sState' = [sState EXCEPT ![t] = "streaming"]
      /\ sEntry' = [sEntry EXCEPT ![t] = Head(toA[t]).file]
      /\ sFrom' = [sFrom EXCEPT ![t] = Head(toA[t]).offset]
      /\ sHash' = [sHash EXCEPT ![t] = <<>>]
      /\ toA' = [toA EXCEPT ![t] = Tail(@)]
      /\ UNCHANGED <<source, served, cancelled, toB>>
      /\ UNCHANGED <<rState, todo, name, inode, appending, rHash>>
      /\ UNCHANGED <<data, part, final>>
  BY DEF HandleRequest, sessionVars, diskVars
<1>2. PICK m \in Messages : m = Head(toA[t])
  BY <1>1, DataParts, TailParts
<1>3. m.kind = "request" /\ m.file \in Files /\ m.offset \in Nat
  BY <1>1, <1>2, MessageParts
<1>4. /\ toA' \in [Tokens -> Seq(Messages)] /\ Once(toA[t])'
      /\ \A u \in Tokens : u # t => toA'[u] = toA[u]
      /\ AskedFiles(t)' \subseteq AskedFiles(t)
      /\ m.file \in AskedFiles(t) /\ m.file \notin AskedFiles(t)'
  <2>1. Once(toA[t])
    BY DEF SessionOK, Stages
  <2> QED
    BY <1>1, <1>2, <1>3, <2>1, ReadBySender
<1>5. /\ sState' \in [Tokens -> {"none", "open", "streaming", "done", "failed"}]
      /\ sState'[t] = "streaming" /\ \A u \in Tokens : u # t => sState'[u] = sState[u]
      /\ sEntry' \in [Tokens -> Files]
      /\ sEntry'[t] = m.file /\ \A u \in Tokens : u # t => sEntry'[u] = sEntry[u]
      /\ sFrom' \in [Tokens -> Nat]
  BY <1>1, <1>2, <1>3 DEF TypeOK, SenderTypeOK
<1>6. /\ sHash' \in [Tokens -> Seq(Blocks)] /\ sHash'[t] = <<>> /\ Len(<<>>) = 0
      /\ \A u \in Tokens : u # t => sHash'[u] = sHash[u]
  BY <1>1, EmptySeq DEF TypeOK, SenderTypeOK
<1>7. ASSUME NEW u \in Tokens PROVE Len(sHash'[u]) <= Size[sEntry'[u]]
  <2>1. CASE u = t
    BY <1>3, <1>5, <1>6, <2>1, Given
  <2>2. CASE u # t
    BY <1>5, <1>6, <2>2 DEF TypeOK, SenderTypeOK
  <2> QED
    BY <2>1, <2>2
<1>8. SenderTypeOK'
  BY <1>1, <1>5, <1>6, <1>7 DEF TypeOK, SenderTypeOK
<1>9. TypeOK'
  BY <1>1, <1>4, <1>8, TypesKept DEF TypeOK, NetTypeOK
<1>10. SessionOK(t)'
  <2>1. /\ StreamFiles(t)' = {m.file} /\ DoneFiles(t)' = DoneFiles(t) /\ Left(t)' = Left(t)
        /\ Future(t)' = Future(t)
    BY <1>1, <1>5 DEF StreamFiles, DoneFiles, Left, Future, Current
  <2>2. Begun(t)' /\ Todo(t)'
    BY <1>1, <1>5 DEF SessionOK, Begun, Todo
  <2>3. Stages(t)'
    BY <1>4, <2>1 DEF SessionOK, Stages
  <2>4. Owed(t)'
    BY <1>1, <1>5, <2>1 DEF SessionOK, Owed
  <2> QED
    BY <2>2, <2>3, <2>4 DEF SessionOK
<1>11. ASSUME NEW u \in Tokens, u # t PROVE SessionOK(u)'
  BY <1>1, <1>4, <1>5, <1>11, SessionKept
<1> QED
  BY <1>9, <1>10, <1>11

LEMMA StreamBlockInv ==
  ASSUME IInv, NEW t \in Tokens, StreamBlock(t)
  PROVE  IInv'
<1> USE DEF IInv
<1>1. PICK f \in Files : f = sEntry[t]
  BY DataParts
<1>2. /\ sState[t] = "streaming" /\ Len(sHash[t]) < Size[f]
      /\ sHash' = [sHash EXCEPT ![t] = Append(sHash[t], source[f])]
      /\ \/ UNCHANGED toB
         \/ ToReceiver(t, [kind |-> "chunk", file |-> f, at |-> Len(sHash[t]), block |-> source[f]])
      /\ UNCHANGED <<source, sState, sEntry, sFrom, served, cancelled, toA>>
      /\ UNCHANGED <<rState, todo, name, inode, appending, rHash>>
      /\ UNCHANGED <<data, part, final>>
  BY <1>1 DEF StreamBlock, sessionVars, diskVars, TypeOK, SenderTypeOK
<1>3. source[f] \in Blocks /\ sHash[t] \in Seq(Blocks) /\ Len(sHash[t]) \in Nat /\ Size[f] \in Nat
  BY Given, DataParts, LenProperties DEF TypeOK, SenderTypeOK, Blocks
<1>4. /\ toB' \in [Tokens -> Seq(Messages)] /\ DoneFiles(t)' = DoneFiles(t)
      /\ \A u \in Tokens : u # t => toB'[u] = toB[u]
  <2>1. CASE UNCHANGED toB
    BY <2>1, TypesKept DEF DoneFiles
  <2>2. CASE ToReceiver(t, [kind |-> "chunk", file |-> f, at |-> Len(sHash[t]), block |-> source[f]])
    <3>1. PICK m \in Messages :
            m = [kind |-> "chunk", file |-> f, at |-> Len(sHash[t]), block |-> source[f]]
      BY <1>3, MessageParts
    <3>2. m.kind # "done" /\ ToReceiver(t, m)
      BY <2>2, <3>1
    <3> QED
      BY <3>2, SentToReceiver
  <2> QED
    BY <1>2, <2>1, <2>2
<1>5. /\ Append(sHash[t], source[f]) \in Seq(Blocks)
      /\ Len(Append(sHash[t], source[f])) = Len(sHash[t]) + 1
  BY <1>3, AppendParts
<1>6. /\ sHash' \in [Tokens -> Seq(Blocks)] /\ Len(sHash'[t]) <= Size[sEntry'[t]]
      /\ \A u \in Tokens : u # t => sHash'[u] = sHash[u]
  BY <1>1, <1>2, <1>3, <1>5 DEF TypeOK, SenderTypeOK
<1>7. SenderTypeOK'
  <2>1. \A u \in Tokens : Len(sHash'[u]) <= Size[sEntry'[u]]
    BY <1>2, <1>6 DEF TypeOK, SenderTypeOK
  <2> QED
    BY <1>2, <1>6, <2>1 DEF TypeOK, SenderTypeOK
<1>8. TypeOK'
  BY <1>2, <1>4, <1>7, TypesKept DEF TypeOK, NetTypeOK
<1>9. SessionOK(t)'
  <2>1. Begun(t)' /\ Once(toA[t])' /\ AskedFiles(t)' = AskedFiles(t)
    BY <1>2 DEF Begun, Once, AskedFiles, SessionOK, Stages
  <2> QED
    BY <1>2, <1>4, <2>1, SessionLoses
<1>10. ASSUME NEW u \in Tokens, u # t PROVE SessionOK(u)'
  BY <1>2, <1>4, <1>10, SessionKept
<1> QED
  BY <1>8, <1>9, <1>10

LEMMA StreamDoneInv ==
  ASSUME IInv, NEW t \in Tokens, StreamDone(t)
  PROVE  IInv'
<1> USE DEF IInv
<1>1. PICK f \in Files : f = sEntry[t]
  BY DataParts
<1>2. PICK m \in Messages : m = [kind |-> "done", file |-> f, hash |-> sHash[t]]
  BY DataParts, MessageParts
<1>3. /\ sState[t] = "streaming" /\ ToReceiver(t, m) /\ FileServed(t)
      /\ UNCHANGED <<source, toA>>
      /\ UNCHANGED <<rState, todo, name, inode, appending, rHash>>
      /\ UNCHANGED <<data, part, final>>
  BY <1>1, <1>2 DEF StreamDone, sessionVars, diskVars
<1>4. /\ toB' \in [Tokens -> Seq(Messages)] /\ DoneFiles(t)' = DoneFiles(t) \cup {f}
      /\ \A u \in Tokens : u # t => toB'[u] = toB[u]
  <2>1. m.kind = "done" /\ m.file = f
    BY <1>2
  <2> QED
    BY <1>3, <2>1, SentToReceiver
<1>5. /\ SenderTypeOK'
      /\ \A u \in Tokens : u # t => UNCHANGED <<sState[u], sEntry[u], served[u]>>
      /\ \/ sState'[t] = "done" /\ served'[t] = {}
         \/ sState'[t] = "open" /\ served'[t] = served[t] \cup {f} /\ served'[t] # EntriesOf(t)
  <2>1. CASE served[t] \cup {f} = EntriesOf(t)
    <3>1. SenderEnds({t}, "done")
      BY <1>1, <1>3, <2>1 DEF FileServed
    <3>2. sState'[t] = "done"
      BY <3>1 DEF SenderEnds
    <3> QED
      BY <1>3, <3>1, <3>2, SenderEndsParts
  <2>2. CASE served[t] \cup {f} # EntriesOf(t)
    <3>1. /\ served' = [served EXCEPT ![t] = served[t] \cup {f}]
          /\ sState' = [sState EXCEPT ![t] = "open"]
          /\ StreamEnds({t}) /\ UNCHANGED cancelled
      BY <1>1, <1>3, <2>2 DEF FileServed
    <3>2. /\ served' \in [Tokens -> SUBSET Files]
          /\ sState' \in [Tokens -> {"none", "open", "streaming", "done", "failed"}]
          /\ served'[t] = served[t] \cup {f} /\ sState'[t] = "open"
          /\ \A u \in Tokens : u # t => served'[u] = served[u] /\ sState'[u] = sState[u]
      BY <3>1 DEF TypeOK, SenderTypeOK
    <3>3. /\ sEntry' \in [Tokens -> Files] /\ sFrom' \in [Tokens -> Nat]
          /\ \A u \in Tokens : sEntry'[u] = IF u = t THEN AnyFile ELSE sEntry[u]
      BY <3>1, Given DEF StreamEnds, TypeOK, SenderTypeOK
    <3>4. /\ sHash' \in [Tokens -> Seq(Blocks)] /\ Len(<<>>) = 0
          /\ \A u \in Tokens : sHash'[u] = IF u = t THEN <<>> ELSE sHash[u]
      BY <3>1, EmptySeq DEF StreamEnds, TypeOK, SenderTypeOK
    <3>5. \A u \in Tokens : Len(sHash'[u]) <= Size[sEntry'[u]]
      BY <3>3, <3>4, Given DEF TypeOK, SenderTypeOK
    <3>6. SenderTypeOK'
      BY <1>3, <3>1, <3>2, <3>3, <3>4, <3>5 DEF TypeOK, SenderTypeOK
    <3> QED
      BY <2>2, <3>2, <3>3, <3>6
  <2> QED
    BY <2>1, <2>2
<1>6. TypeOK'
  BY <1>3, <1>4, <1>5, TypesKept DEF TypeOK, NetTypeOK
<1>7. SessionOK(t)'
  <2>1. /\ AskedFiles(t)' = AskedFiles(t) /\ StreamFiles(t)' = {} /\ Left(t)' = Left(t)
        /\ Future(t)' = Future(t) /\ StreamFiles(t) = {f}
    BY <1>1, <1>3, <1>5 DEF AskedFiles, StreamFiles, Left, Future, Current
  <2>2. Begun(t)' /\ Todo(t)' /\ Once(toA[t])'
    BY <1>3, <1>5 DEF SessionOK, Begun, Todo, Stages, Once
  <2>3. Stages(t)'
    BY <1>4, <2>1, <2>2 DEF SessionOK, Stages
  <2>4. Owed(t)'
    <3>1. f \in EntriesOf(t)
      BY <2>1 DEF SessionOK, Stages
    <3> QED
      BY <1>3, <1>4, <1>5, <2>1, <3>1 DEF SessionOK, Owed
  <2> QED
    BY <2>2, <2>3, <2>4 DEF SessionOK
<1>8. ASSUME NEW u \in Tokens, u # t PROVE SessionOK(u)'
  BY <1>3, <1>4, <1>5, <1>8, SessionKept
<1> QED
  BY <1>6, <1>7, <1>8

\* The sender fails, and the receiver may be told.
LEMMA SenderFailsInv ==
  ASSUME IInv, NEW t \in Tokens,
         sState[t] \in {"open", "streaming"}, SenderEnds({t}, "failed"),
         \/ TellReceiver(t) /\ UNCHANGED toA
         \/ UNCHANGED <<toB, toA>>
         \/ toA[t] # <<>> /\ toA' = [toA EXCEPT ![t] = Tail(@)] /\ UNCHANGED toB,
         UNCHANGED <<source, rState, todo, name, inode, appending, rHash, data, part, final>>
  PROVE  IInv'
<1> USE DEF IInv
<1>1. /\ SenderTypeOK' /\ sState'[t] = "failed" /\ served'[t] = {}
      /\ \A u \in Tokens : u # t => UNCHANGED <<sState[u], sEntry[u], served[u]>>
  BY SenderEndsParts
<1>2. /\ toB' \in [Tokens -> Seq(Messages)] /\ toA' \in [Tokens -> Seq(Messages)]
      /\ \A u \in Tokens : u # t => toB'[u] = toB[u] /\ toA'[u] = toA[u]
      /\ AskedFiles(t)' \subseteq AskedFiles(t) /\ DoneFiles(t)' \subseteq DoneFiles(t)
      /\ Once(toA[t])'
  <2>1. Once(toA[t])
    BY DEF SessionOK, Stages
  <2>2. UNCHANGED toA => AskedFiles(t)' = AskedFiles(t) /\ Once(toA[t])'
    BY <2>1 DEF AskedFiles, Once
  <2>3. UNCHANGED toB => DoneFiles(t)' = DoneFiles(t)
    BY DEF DoneFiles
  <2> QED
    BY <2>1, <2>2, <2>3, ToldReceiver, ReadBySender, TypesKept
<1>3. TypeOK'
  BY <1>1, <1>2, TypesKept DEF TypeOK, NetTypeOK
<1>4. SessionOK(t)'
  BY <1>1, <1>2, SenderStops
<1>5. ASSUME NEW u \in Tokens, u # t PROVE SessionOK(u)'
  BY <1>1, <1>2, <1>5, SessionKept
<1> QED
  BY <1>3, <1>4, <1>5

LEMMA SenderEndingsInv ==
  ASSUME IInv, NEW t \in Tokens,
         StreamFails(t) \/ SenderCancelled(t) \/ SenderAborted(t) \/ SenderTimeout(t)
  PROVE  IInv'
<1>1. /\ sState[t] \in {"open", "streaming"} /\ SenderEnds({t}, "failed")
      /\ \/ TellReceiver(t) /\ UNCHANGED toA
         \/ UNCHANGED <<toB, toA>>
         \/ toA[t] # <<>> /\ toA' = [toA EXCEPT ![t] = Tail(@)] /\ UNCHANGED toB
      /\ UNCHANGED <<source, rState, todo, name, inode, appending, rHash, data, part, final>>
  BY DEF StreamFails, SenderCancelled, SenderAborted, SenderTimeout, netVars, sessionVars, diskVars
<1> QED
  BY <1>1, SenderFailsInv

LEMMA CancelSendInv ==
  ASSUME IInv, NEW t \in Tokens, CancelSend(t)
  PROVE  IInv'
<1> USE DEF IInv
<1>1. /\ cancelled' = [cancelled EXCEPT ![t] = TRUE]
      /\ UNCHANGED <<source, sState, sEntry, sFrom, sHash, served, toB, toA>>
      /\ UNCHANGED <<rState, todo, name, inode, appending, rHash>>
      /\ UNCHANGED <<data, part, final>>
  BY DEF CancelSend, netVars, sessionVars, diskVars
<1>2. cancelled' \in [Tokens -> BOOLEAN]
  BY <1>1 DEF TypeOK, SenderTypeOK
<1>3. SenderTypeOK'
  BY <1>1, <1>2 DEF TypeOK, SenderTypeOK
<1>4. TypeOK'
  BY <1>1, <1>3, TypesKept DEF TypeOK, NetTypeOK
<1>5. \A u \in Tokens : SessionOK(u)'
  BY <1>1, SessionKept
<1> QED
  BY <1>4, <1>5

LEMMA CrashSenderInv ==
  ASSUME IInv, CrashSender
  PROVE  IInv'
<1> USE DEF IInv
<1> DEFINE ts == {t \in Tokens : sState[t] \in {"open", "streaming"}}
<1>1. /\ SenderEnds(ts, "failed") /\ toA' = [t \in Tokens |-> <<>>]
      /\ UNCHANGED <<source, toB>>
      /\ UNCHANGED <<rState, todo, name, inode, appending, rHash>>
      /\ UNCHANGED <<data, part, final>>
  BY DEF CrashSender, sessionVars, diskVars
<1>2. /\ SenderTypeOK'
      /\ \A t \in Tokens :
           /\ t \in ts => sState'[t] = "failed" /\ served'[t] = {}
           /\ t \notin ts => UNCHANGED <<sState[t], sEntry[t], served[t]>>
  BY <1>1, SenderEndsParts
<1>3. toA' \in [Tokens -> Seq(Messages)] /\ \A t \in Tokens : toA'[t] = <<>>
  BY <1>1, EmptySeq
<1>4. TypeOK'
  BY <1>1, <1>2, <1>3, TypesKept DEF TypeOK, NetTypeOK
<1>5. ASSUME NEW t \in Tokens PROVE SessionOK(t)'
  <2>1. AskedFiles(t)' = {} /\ Once(toA[t])' /\ DoneFiles(t)' = DoneFiles(t)
    BY <1>1, <1>3, NothingIn, EmptySeq DEF AskedFiles, Once, DoneFiles
  <2>2. CASE t \in ts
    BY <1>1, <1>2, <2>1, <2>2, SenderStops
  <2>3. CASE t \notin ts
    <3>1. Begun(t)'
      BY <1>1, <1>2, <1>3, <2>3 DEF SessionOK, Begun
    <3> QED
      BY <1>1, <1>2, <2>1, <2>3, <3>1, SessionLoses
  <2> QED
    BY <2>2, <2>3
<1> QED
  BY <1>4, <1>5

LEMMA EditInv ==
  ASSUME IInv, NEW f \in Files, Edit(f)
  PROVE  IInv'
<1> USE DEF IInv
<1>1. /\ source[f] < MaxVersion /\ source' = [source EXCEPT ![f] = @ + 1]
      /\ UNCHANGED <<sState, sEntry, sFrom, sHash, served, cancelled, toB, toA>>
      /\ UNCHANGED <<rState, todo, name, inode, appending, rHash>>
      /\ UNCHANGED <<data, part, final>>
  BY DEF Edit, senderVars, netVars, sessionVars, diskVars
<1>2. source' \in [Files -> 1 .. MaxVersion]
  BY <1>1, Given DEF TypeOK, SenderTypeOK
<1>3. SenderTypeOK'
  BY <1>1, <1>2 DEF TypeOK, SenderTypeOK
<1>4. TypeOK'
  BY <1>1, <1>3, TypesKept DEF TypeOK, NetTypeOK
<1>5. \A u \in Tokens : SessionOK(u)'
  BY <1>1, SessionKept
<1> QED
  BY <1>4, <1>5

-----------------------------------------------------------------------------
(* The receiver. *)

LEMMA ReceiveOfferInv ==
  ASSUME IInv, NEW t \in Tokens, ReceiveOffer(t)
  PROVE  IInv'
<1> USE DEF IInv
<1>1. /\ rState[t] = "none" /\ toB[t] # <<>> /\ toB' = [toB EXCEPT ![t] = Tail(@)]
      /\ rState' = [rState EXCEPT ![t] = "pending"]
      /\ UNCHANGED <<source, sState, sEntry, sFrom, sHash, served, cancelled, toA>>
      /\ UNCHANGED <<todo, name, inode, appending, rHash>>
      /\ UNCHANGED <<data, part, final>>
  BY DEF ReceiveOffer, Received, Consume, senderVars, diskVars
<1>2. /\ toB' \in [Tokens -> Seq(Messages)] /\ DoneFiles(t)' \subseteq DoneFiles(t)
      /\ \A u \in Tokens : u # t => toB'[u] = toB[u]
  BY <1>1, ReadByReceiver
<1>3. /\ rState' \in [Tokens -> {"none", "pending", "setup", "opening", "waiting", "done", "failed"}]
      /\ rState'[t] = "pending" /\ \A u \in Tokens : u # t => rState'[u] = rState[u]
  BY <1>1 DEF TypeOK, SessionTypeOK
<1>4. SessionTypeOK'
  <2>1. \A u \in Tokens : Receiving(u)' => Receiving(u) /\ todo'[u] = todo[u]
    BY <1>1, <1>3 DEF Receiving
  <2> QED
    BY <1>1, <1>3, <2>1 DEF TypeOK, SessionTypeOK, Current
<1>5. TypeOK'
  BY <1>1, <1>2, <1>4, TypesKept DEF TypeOK, NetTypeOK
<1>6. SessionOK(t)'
  <2>1. /\ AskedFiles(t)' = AskedFiles(t) /\ StreamFiles(t)' = StreamFiles(t)
        /\ Left(t)' = Left(t) /\ Future(t)' = Future(t)
    BY <1>1, <1>3 DEF AskedFiles, StreamFiles, Left, Future
  <2>2. sState[t] # "none" /\ todo[t] = <<>>
    BY <1>1 DEF SessionOK, Begun, Todo
  <2>3. Begun(t)' /\ Todo(t)' /\ Once(toA[t])'
    BY <1>1, <1>3, <2>2 DEF SessionOK, Begun, Todo, Stages, Once
  <2>4. Stages(t)'
    BY <1>2, <2>1, <2>3 DEF SessionOK, Stages
  <2>5. Owed(t)'
    BY <1>1, <1>2, <1>3, <2>1 DEF SessionOK, Owed
  <2> QED
    BY <2>3, <2>4, <2>5 DEF SessionOK
<1>7. ASSUME NEW u \in Tokens, u # t PROVE SessionOK(u)'
  BY <1>1, <1>2, <1>3, <1>7, SessionKept
<1> QED
  BY <1>5, <1>6, <1>7

LEMMA AcceptInv ==
  ASSUME IInv, NEW t \in Tokens, Accept(t)
  PROVE  IInv'
<1> USE DEF IInv
<1>1. /\ rState[t] = "pending"
      /\ rState' = [rState EXCEPT ![t] = "setup"] /\ todo' = [todo EXCEPT ![t] = Manifest[t]]
      /\ UNCHANGED <<source, sState, sEntry, sFrom, sHash, served, cancelled, toA, toB>>
      /\ UNCHANGED <<name, inode, appending, rHash>>
      /\ UNCHANGED <<data, part, final>>
  BY DEF Accept, senderVars, netVars, diskVars
<1>2. Manifest[t] \in Seq(Entries) /\ IsInjective(Manifest[t])
  BY Given
<1>3. /\ rState' \in [Tokens -> {"none", "pending", "setup", "opening", "waiting", "done", "failed"}]
      /\ rState'[t] = "setup" /\ \A u \in Tokens : u # t => rState'[u] = rState[u]
      /\ todo' \in [Tokens -> Seq(Entries)] /\ todo'[t] = Manifest[t]
      /\ \A u \in Tokens : u # t => todo'[u] = todo[u]
  BY <1>1, <1>2 DEF TypeOK, SessionTypeOK
<1>4. SessionTypeOK'
  <2>1. \A u \in Tokens : Receiving(u)' => Receiving(u) /\ todo'[u] = todo[u]
    BY <1>1, <1>3 DEF Receiving
  <2> QED
    BY <1>1, <1>3, <2>1 DEF TypeOK, SessionTypeOK, Current
<1>5. TypeOK'
  BY <1>1, <1>4, TypesKept DEF TypeOK, NetTypeOK
<1>6. SessionOK(t)'
  <2>1. /\ AskedFiles(t)' = AskedFiles(t) /\ StreamFiles(t)' = StreamFiles(t)
        /\ DoneFiles(t)' = DoneFiles(t) /\ Left(t)' = Left(t) /\ Future(t)' = Future(t)
    BY <1>1, <1>3 DEF AskedFiles, StreamFiles, DoneFiles, Left, Future, EntriesOf
  <2>2. Begun(t)' /\ Todo(t)' /\ Once(toA[t])'
    BY <1>1, <1>2, <1>3 DEF SessionOK, Begun, Todo, Stages, Once, EntriesOf
  <2>3. Stages(t)'
    BY <2>1, <2>2 DEF SessionOK, Stages
  <2>4. Owed(t)'
    BY <1>1, <1>3, <2>1 DEF SessionOK, Owed
  <2> QED
    BY <2>2, <2>3, <2>4 DEF SessionOK
<1>7. ASSUME NEW u \in Tokens, u # t PROVE SessionOK(u)'
  BY <1>1, <1>3, <1>7, SessionKept
<1> QED
  BY <1>5, <1>6, <1>7

\* The receiver fails; it may have read a message, and may tell the sender.
LEMMA ReceiverFailsInv ==
  ASSUME IInv, NEW t \in Tokens, rState[t] # "none", ReceiverEnds({t}, "failed"),
         UNCHANGED toB \/ (toB[t] # <<>> /\ toB' = [toB EXCEPT ![t] = Tail(@)]),
         UNCHANGED toA \/ TellSender(t),
         DiskTypeOK',
         UNCHANGED <<source, sState, sEntry, sFrom, sHash, served, cancelled>>
  PROVE  IInv'
<1> USE DEF IInv
<1>1. /\ SessionTypeOK' /\ rState'[t] = "failed" /\ todo'[t] = <<>>
      /\ \A u \in Tokens : u # t => UNCHANGED <<rState[u], todo[u]>>
  BY ReceiverEndsParts
<1>2. /\ toB' \in [Tokens -> Seq(Messages)] /\ toA' \in [Tokens -> Seq(Messages)]
      /\ \A u \in Tokens : u # t => toB'[u] = toB[u] /\ toA'[u] = toA[u]
      /\ AskedFiles(t)' = AskedFiles(t) /\ DoneFiles(t)' \subseteq DoneFiles(t)
      /\ Once(toA[t])'
  <2>1. Once(toA[t])
    BY DEF SessionOK, Stages
  <2>2. UNCHANGED toA => AskedFiles(t)' = AskedFiles(t) /\ Once(toA[t])'
    BY <2>1 DEF AskedFiles, Once
  <2>3. UNCHANGED toB => DoneFiles(t)' = DoneFiles(t)
    BY DEF DoneFiles
  <2> QED
    BY <2>1, <2>2, <2>3, ToldSender, ReadByReceiver, TypesKept
<1>3. TypeOK'
  BY <1>1, <1>2, TypesKept DEF TypeOK, NetTypeOK
<1>4. SessionOK(t)'
  BY <1>1, <1>2, ReceiverStops
<1>5. ASSUME NEW u \in Tokens, u # t PROVE SessionOK(u)'
  BY <1>1, <1>2, <1>5, SessionKept
<1> QED
  BY <1>3, <1>4, <1>5

LEMMA ReceiverEndingsInv ==
  ASSUME IInv, NEW t \in Tokens,
         \/ CancelReceive(t) \/ ReceiveAbort(t) \/ ReceiverTimeout(t) \/ OpenFails(t)
         \/ ChunkFails(t) \/ DoneFails(t)
  PROVE  IInv'
<1>1. /\ rState[t] # "none" /\ ReceiverEnds({t}, "failed")
      /\ UNCHANGED toB \/ (toB[t] # <<>> /\ toB' = [toB EXCEPT ![t] = Tail(@)])
      /\ UNCHANGED toA \/ TellSender(t)
      /\ UNCHANGED <<source, sState, sEntry, sFrom, sHash, served, cancelled>>
      /\ UNCHANGED <<data, final>>
      /\ UNCHANGED part \/ part' = [part EXCEPT ![Destination(t)] = NoFile]
  BY DEF CancelReceive, ReceiveAbort, ReceiverTimeout, OpenFails, ChunkFails, DoneFails,
         Received, Consume, netVars, senderVars, diskVars
<1>2. DiskTypeOK'
  BY <1>1 DEF IInv, TypeOK, DiskTypeOK
<1> QED
  BY <1>1, <1>2, ReceiverFailsInv

LEMMA CrashReceiverInv ==
  ASSUME IInv, CrashReceiver
  PROVE  IInv'
<1> USE DEF IInv
<1> DEFINE ts == {t \in Tokens : rState[t] \notin {"none", "done"}}
<1>1. /\ ReceiverEnds(ts, "failed") /\ toB' = [t \in Tokens |-> <<>>]
      /\ UNCHANGED <<source, sState, sEntry, sFrom, sHash, served, cancelled, toA>>
      /\ UNCHANGED <<data, part, final>>
  BY DEF CrashReceiver, senderVars, diskVars
<1>2. /\ SessionTypeOK'
      /\ \A t \in Tokens :
           /\ t \in ts => rState'[t] = "failed" /\ todo'[t] = <<>>
           /\ t \notin ts => UNCHANGED <<rState[t], todo[t]>>
  BY <1>1, ReceiverEndsParts
<1>3. toB' \in [Tokens -> Seq(Messages)] /\ \A t \in Tokens : toB'[t] = <<>>
  BY <1>1, EmptySeq
<1>4. TypeOK'
  BY <1>1, <1>2, <1>3, TypesKept DEF TypeOK, NetTypeOK
<1>5. ASSUME NEW t \in Tokens PROVE SessionOK(t)'
  <2>1. AskedFiles(t)' = AskedFiles(t) /\ Once(toA[t])' /\ DoneFiles(t)' = {}
    BY <1>1, <1>3, NothingIn DEF AskedFiles, Once, DoneFiles, SessionOK, Stages
  <2>2. CASE t \in ts
    BY <1>1, <1>2, <2>1, <2>2, ReceiverStops
  <2>3. CASE t \notin ts
    <3>1. Begun(t)'
      BY <1>1, <1>2, <1>3, <2>3 DEF SessionOK, Begun
    <3> QED
      BY <1>1, <1>2, <2>1, <2>3, <3>1, SessionLoses
  <2> QED
    BY <2>2, <2>3
<1> QED
  BY <1>4, <1>5

LEMMA CompleteInv ==
  ASSUME IInv, NEW t \in Tokens, Complete(t)
  PROVE  IInv'
<1> USE DEF IInv
<1>1. /\ rState[t] = "setup" /\ todo[t] = <<>> /\ ReceiverEnds({t}, "done")
      /\ UNCHANGED <<source, sState, sEntry, sFrom, sHash, served, cancelled, toA, toB>>
      /\ UNCHANGED <<data, part, final>>
  BY DEF Complete, senderVars, netVars, diskVars
<1>2. /\ SessionTypeOK' /\ rState'[t] = "done" /\ todo'[t] = <<>>
      /\ \A u \in Tokens : u # t => UNCHANGED <<rState[u], todo[u]>>
  BY <1>1, ReceiverEndsParts
<1>3. TypeOK'
  BY <1>1, <1>2, TypesKept DEF TypeOK, NetTypeOK
<1>4. SessionOK(t)'
  <2>1. /\ AskedFiles(t)' = AskedFiles(t) /\ StreamFiles(t)' = StreamFiles(t)
        /\ DoneFiles(t)' = DoneFiles(t) /\ Left(t)' = Left(t) /\ Future(t)' = Future(t)
    BY <1>1, <1>2 DEF AskedFiles, StreamFiles, DoneFiles, Left, Future
  <2>2. Begun(t)' /\ Todo(t)' /\ Once(toA[t])'
    BY <1>1, <1>2 DEF SessionOK, Begun, Todo, Stages, Once
  <2>3. Stages(t)'
    BY <2>1, <2>2 DEF SessionOK, Stages
  <2>4. Owed(t)'
    BY <1>1, <1>2, <2>1 DEF SessionOK, Owed
  <2> QED
    BY <2>2, <2>3, <2>4 DEF SessionOK
<1>5. ASSUME NEW u \in Tokens, u # t PROVE SessionOK(u)'
  BY <1>1, <1>2, <1>5, SessionKept
<1> QED
  BY <1>3, <1>4, <1>5

LEMMA CreateDirInv ==
  ASSUME IInv, NEW t \in Tokens, CreateDir(t)
  PROVE  IInv'
<1> USE DEF IInv
<1>1. /\ rState[t] = "setup" /\ todo[t] # <<>> /\ Head(todo[t]) \in Dirs
      /\ todo' = [todo EXCEPT ![t] = Tail(@)]
      /\ UNCHANGED <<source, sState, sEntry, sFrom, sHash, served, cancelled, toA, toB>>
      /\ UNCHANGED <<rState, name, inode, appending, rHash>>
      /\ UNCHANGED <<data, part, final>>
  BY DEF CreateDir, Current, senderVars, netVars, diskVars
<1>2. /\ Tail(todo[t]) \in Seq(Entries) /\ IsInjective(Tail(todo[t]))
      /\ Range(Tail(todo[t])) = Range(todo[t]) \ {Head(todo[t])}
      /\ Head(todo[t]) \in Range(todo[t])
  <2>1. todo[t] \in Seq(Entries) /\ IsInjective(todo[t])
    BY DataParts DEF SessionOK, Todo
  <2> QED
    BY <1>1, <2>1, TailParts, InjectiveTail
<1>3. /\ todo' \in [Tokens -> Seq(Entries)] /\ todo'[t] = Tail(todo[t])
      /\ \A u \in Tokens : u # t => todo'[u] = todo[u]
  BY <1>1, <1>2 DEF TypeOK, SessionTypeOK
<1>4. SessionTypeOK'
  <2>1. \A u \in Tokens : Receiving(u)' => Receiving(u) /\ todo'[u] = todo[u]
    BY <1>1, <1>3 DEF Receiving
  <2> QED
    BY <1>1, <1>3, <2>1 DEF TypeOK, SessionTypeOK, Current
<1>5. TypeOK'
  BY <1>1, <1>4, TypesKept DEF TypeOK, NetTypeOK
<1>6. SessionOK(t)'
  <2>1. /\ AskedFiles(t)' = AskedFiles(t) /\ StreamFiles(t)' = StreamFiles(t)
        /\ DoneFiles(t)' = DoneFiles(t) /\ Left(t)' = Range(Tail(todo[t])) /\ Future(t)' = Left(t)'
        /\ Left(t) = Range(todo[t]) /\ Future(t) = Left(t)
    BY <1>1, <1>3 DEF AskedFiles, StreamFiles, DoneFiles, Left, Future
  <2>2. Begun(t)' /\ Todo(t)' /\ Once(toA[t])'
    BY <1>1, <1>2, <1>3 DEF SessionOK, Begun, Todo, Stages, Once
  <2>3. Stages(t)'
    BY <1>2, <2>1, <2>2 DEF SessionOK, Stages
  <2>4. ~(EntriesOf(t) \subseteq Files)
    BY <1>1, <1>2, Given DEF SessionOK, Todo
  <2>5. Owed(t)'
    BY <1>1, <2>4 DEF SessionOK, Owed
  <2> QED
    BY <2>2, <2>3, <2>5 DEF SessionOK
<1>7. ASSUME NEW u \in Tokens, u # t PROVE SessionOK(u)'
  BY <1>1, <1>3, <1>7, SessionKept
<1> QED
  BY <1>5, <1>6, <1>7

LEMMA ChooseNameInv ==
  ASSUME IInv, NEW t \in Tokens, ChooseName(t)
  PROVE  IInv'
<1> USE DEF IInv
<1>1. PICK n \in Names : name' = [name EXCEPT ![t] = n]
  BY DEF ChooseName
<1>2. /\ rState[t] = "setup" /\ todo[t] # <<>> /\ Current(t) \in Files
      /\ rState' = [rState EXCEPT ![t] = "opening"]
      /\ UNCHANGED <<source, sState, sEntry, sFrom, sHash, served, cancelled, toA, toB>>
      /\ UNCHANGED <<todo, inode, appending, rHash>>
      /\ UNCHANGED <<data, part, final>>
  BY DEF ChooseName, senderVars, netVars, diskVars
<1>3. /\ rState' \in [Tokens -> {"none", "pending", "setup", "opening", "waiting", "done", "failed"}]
      /\ rState'[t] = "opening" /\ \A u \in Tokens : u # t => rState'[u] = rState[u]
      /\ name' \in [Tokens -> Names]
  BY <1>1, <1>2 DEF TypeOK, SessionTypeOK
<1>4. SessionTypeOK'
  <2>1. \A u \in Tokens : Receiving(u)' => (Receiving(u) \/ u = t) /\ todo'[u] = todo[u]
    BY <1>2, <1>3 DEF Receiving
  <2> QED
    BY <1>2, <1>3, <2>1 DEF TypeOK, SessionTypeOK, Current
<1>5. TypeOK'
  BY <1>2, <1>4, TypesKept DEF TypeOK, NetTypeOK
<1>6. SessionOK(t)'
  <2>1. /\ AskedFiles(t)' = AskedFiles(t) /\ StreamFiles(t)' = StreamFiles(t)
        /\ DoneFiles(t)' = DoneFiles(t) /\ Left(t)' = Left(t) /\ Future(t)' = Future(t)
    BY <1>2, <1>3 DEF AskedFiles, StreamFiles, DoneFiles, Left, Future
  <2>2. Begun(t)' /\ Todo(t)' /\ Once(toA[t])'
    BY <1>2, <1>3 DEF SessionOK, Begun, Todo, Stages, Once
  <2>3. Stages(t)'
    BY <2>1, <2>2 DEF SessionOK, Stages
  <2>4. Owed(t)'
    BY <1>2, <1>3, <2>1 DEF SessionOK, Owed
  <2> QED
    BY <2>2, <2>3, <2>4 DEF SessionOK
<1>7. ASSUME NEW u \in Tokens, u # t PROVE SessionOK(u)'
  BY <1>2, <1>3, <1>7, SessionKept
<1> QED
  BY <1>5, <1>6, <1>7

\* What OpenPart does, for its file, its inode, and what it keeps of the .part file.
Opens(t, f, i, old) ==
    /\ f = Current(t) /\ (old = data[i] \/ old = <<>>)
    /\ part[Destination(t)] = NoFile => i = <<t, f>>
    /\ part[Destination(t)] # NoFile => i = part[Destination(t)]
    /\ rState[t] = "opening" /\ todo[t] # <<>> /\ Destination(t) \in Paths
    /\ ToSender(t, [kind |-> "request", file |-> f, offset |-> Len(old)])
    /\ rState' = [rState EXCEPT ![t] = "waiting"] /\ inode' = [inode EXCEPT ![t] = i]
    /\ appending' \in [Tokens -> BOOLEAN]
    /\ rHash' = [rHash EXCEPT ![t] = old]
    /\ data' = [data EXCEPT ![i] = old] /\ part' = [part EXCEPT ![Destination(t)] = i]

LEMMA OpenPartParts ==
  ASSUME TypeOK, NEW t \in Tokens, OpenPart(t)
  PROVE  \E f \in Files, i \in Inodes, old \in Seq(Blocks) : Opens(t, f, i, old)
<1>1. rState[t] = "opening"
  BY DEF OpenPart
<1>2. todo[t] # <<>> /\ Current(t) \in Files /\ Destination(t) \in Paths
  BY <1>1, DataParts DEF Receiving
<1>3. PICK f \in Files : f = Current(t)
  BY <1>2
<1>4. PICK i \in Inodes : i = IF part[Destination(t)] = NoFile THEN <<t, f>>
                                                             ELSE part[Destination(t)]
  <2>1. <<t, f>> \in Inodes /\ part[Destination(t)] \in Inodes \cup {NoFile}
    BY <1>2 DEF TypeOK, DiskTypeOK, Inodes
  <2> QED
    BY <2>1
<1>5. PICK old \in Seq(Blocks) :
        /\ old = data[i] \/ old = <<>>
        /\ old = IF data[i] # <<>> /\ Len(data[i]) <= Size[f] THEN data[i] ELSE <<>>
  BY EmptySeq DEF TypeOK, DiskTypeOK
<1>6. /\ ToSender(t, [kind |-> "request", file |-> f, offset |-> Len(old)])
      /\ rState' = [rState EXCEPT ![t] = "waiting"] /\ inode' = [inode EXCEPT ![t] = i]
      /\ appending' = [appending EXCEPT ![t] = data[i] # <<>> /\ Len(data[i]) <= Size[f]]
      /\ rHash' = [rHash EXCEPT ![t] = old]
      /\ data' = [data EXCEPT ![i] = old] /\ part' = [part EXCEPT ![Destination(t)] = i]
  BY <1>3, <1>4, <1>5 DEF OpenPart
<1>7. appending' \in [Tokens -> BOOLEAN]
  BY <1>6 DEF TypeOK, SessionTypeOK
<1>8. Opens(t, f, i, old)
  BY <1>1, <1>2, <1>3, <1>4, <1>5, <1>6, <1>7 DEF Opens
<1> QED
  BY <1>8

LEMMA OpenPartInv ==
  ASSUME IInv, NEW t \in Tokens, OpenPart(t)
  PROVE  IInv'
<1> USE DEF IInv
<1>1. PICK f \in Files, i \in Inodes, old \in Seq(Blocks) : Opens(t, f, i, old)
  BY OpenPartParts
<1> USE <1>1 DEF Opens
<1>2. UNCHANGED <<source, sState, sEntry, sFrom, sHash, served, cancelled, toB, todo, name, final>>
  BY DEF OpenPart, senderVars
<1>3. PICK m \in Messages : m = [kind |-> "request", file |-> f, offset |-> Len(old)]
  BY MessageParts, LenProperties
<1>4. m.kind = "request" /\ m.file = f /\ ToSender(t, m)
  BY <1>1, <1>3
<1>5. f \in Range(todo[t]) /\ todo[t] \in Seq(Entries)
  BY <1>1, DataParts, TailParts DEF Current
<1>6. Left(t) = Range(todo[t]) /\ Future(t) = Left(t) /\ f \in EntriesOf(t)
  BY <1>1, <1>5 DEF Left, Future, SessionOK, Todo
<1>7. /\ toA' \in [Tokens -> Seq(Messages)] /\ Once(toA[t])'
      /\ \A u \in Tokens : u # t => toA'[u] = toA[u]
      /\ AskedFiles(t)' = AskedFiles(t) \cup {f}
  <2>1. Once(toA[t]) /\ f \notin AskedFiles(t)
    BY <1>5, <1>6 DEF SessionOK, Stages
  <2> QED
    BY <1>4, <2>1, SentToSender
<1>8. /\ rState' \in [Tokens -> {"none", "pending", "setup", "opening", "waiting", "done", "failed"}]
      /\ rState'[t] = "waiting" /\ \A u \in Tokens : u # t => rState'[u] = rState[u]
      /\ inode' \in [Tokens -> Inodes] /\ rHash' \in [Tokens -> Seq(Blocks)]
  BY <1>1 DEF TypeOK, SessionTypeOK
<1>9. DiskTypeOK'
  BY <1>1, <1>2 DEF TypeOK, DiskTypeOK
<1>10. SessionTypeOK'
  <2>1. \A u \in Tokens : Receiving(u)' => Receiving(u)
    BY <1>1, <1>8 DEF Receiving
  <2> QED
    BY <1>1, <1>2, <1>8, <2>1 DEF TypeOK, SessionTypeOK, Current
<1>11. TypeOK'
  BY <1>2, <1>7, <1>9, <1>10, TypesKept DEF TypeOK, NetTypeOK
<1>12. SessionOK(t)'
  <2>1. /\ StreamFiles(t)' = StreamFiles(t) /\ DoneFiles(t)' = DoneFiles(t)
        /\ Left(t)' = Left(t) /\ Future(t)' = Left(t) \ {f}
    BY <1>1, <1>2, <1>8 DEF StreamFiles, DoneFiles, Left, Future, Current
  <2>2. Begun(t)' /\ Todo(t)'
    BY <1>1, <1>2, <1>8 DEF SessionOK, Begun, Todo
  <2>3. Stages(t)'
    BY <1>5, <1>6, <1>7, <2>1 DEF SessionOK, Stages
  <2>4. Owed(t)'
    BY <1>1, <1>2, <1>8, <2>1 DEF SessionOK, Owed
  <2> QED
    BY <2>2, <2>3, <2>4 DEF SessionOK
<1>13. ASSUME NEW u \in Tokens, u # t PROVE SessionOK(u)'
  BY <1>2, <1>7, <1>8, <1>13, SessionKept
<1> QED
  BY <1>11, <1>12, <1>13

\* A block is written at the end of what was hashed; when the file has exactly
\* that, it is appended.
LEMMA WrittenParts ==
  ASSUME TypeOK, NEW t \in Tokens, NEW old \in Seq(Blocks), NEW b \in Blocks
  PROVE  /\ Written(t, old, b) \in Seq(Blocks)
         /\ old = rHash[t] => Written(t, old, b) = Append(old, b)
<1>1. /\ rHash[t] \in Seq(Blocks) /\ Len(rHash[t]) \in Nat /\ Len(old) \in Nat
      /\ \A k \in 1 .. Len(old) : old[k] \in Blocks
  BY DataParts, LenProperties, ElementOfSeq
<1>2. /\ Append(old, b) \in Seq(Blocks) /\ Len(Append(old, b)) = Len(old) + 1
      /\ \A k \in 1 .. Len(old) : Append(old, b)[k] = old[k]
      /\ Append(old, b)[Len(old) + 1] = b
  BY AppendParts
<1>3. CASE appending[t]
  BY <1>2, <1>3 DEF Written
<1>4. CASE ~appending[t]
  <2> DEFINE l == Len(rHash[t])
             n == IF Len(old) > l THEN Len(old) ELSE l + 1
             w == [k \in 1 .. n |-> IF k = l + 1 THEN b ELSE IF k <= Len(old) THEN old[k] ELSE 0]
  <2>1. Written(t, old, b) = w
    BY <1>4 DEF Written
  <2>2. n \in Nat /\ 0 \in Blocks
    BY <1>1, Given DEF Blocks
  <2>3. \A k \in 1 .. n : w[k] \in Blocks
    BY <1>1, <2>2
  <2>4. w \in [1 .. n -> Blocks]
    BY <2>3
  <2>5. w \in Seq(Blocks)
    BY <2>2, <2>4, SeqDef
  <2>6. ASSUME old = rHash[t] PROVE w = Append(old, b)
    <3>1. n = Len(old) + 1
      BY <1>1, <2>6
    <3>2. Len(w) = n
      BY <2>2, <2>4, <2>5, LenProperties
    <3>3. \A k \in 1 .. n : w[k] = Append(old, b)[k]
      BY <1>1, <1>2, <2>6, <3>1
    <3>4. Len(w) = Len(Append(old, b)) /\ \A k \in 1 .. Len(w) : w[k] = Append(old, b)[k]
      BY <1>2, <3>1, <3>2, <3>3
    <3> HIDE DEF w
    <3> QED
      BY <1>2, <2>5, <3>4, SeqEqual
  <2> QED
    BY <2>1, <2>5, <2>6
<1> QED
  BY <1>3, <1>4

LEMMA ReceiveChunkInv ==
  ASSUME IInv, NEW t \in Tokens, ReceiveChunk(t)
  PROVE  IInv'
<1> USE DEF IInv
<1>1. /\ toB[t] # <<>> /\ Head(toB[t]).kind = "chunk" /\ toB' = [toB EXCEPT ![t] = Tail(@)]
      /\ UNCHANGED <<source, sState, sEntry, sFrom, sHash, served, cancelled, toA>>
      /\ UNCHANGED <<rState, todo, name, inode, appending, part, final>>
  BY DEF ReceiveChunk, Received, Consume, senderVars
<1>2. PICK m \in Messages : m = Head(toB[t])
  BY <1>1, DataParts, TailParts
<1>3. m.block \in Blocks
  BY <1>1, <1>2, MessageParts
<1>4. rHash' \in [Tokens -> Seq(Blocks)] /\ data' \in [Inodes -> Seq(Blocks)]
  <2>1. CASE UNCHANGED <<rHash, data>>
    BY <2>1 DEF TypeOK, SessionTypeOK, DiskTypeOK
  <2>2. CASE /\ rHash' = [rHash EXCEPT ![t] = Append(@, m.block)]
             /\ data' = [data EXCEPT ![inode[t]] = Written(t, @, m.block)]
    <3>1. rHash' = [rHash EXCEPT ![t] = Append(rHash[t], m.block)]
      BY <2>2 DEF TypeOK, SessionTypeOK
    <3>2. Append(rHash[t], m.block) \in Seq(Blocks)
      BY <1>3, DataParts, AppendParts
    <3>3. PICK i \in Inodes : i = inode[t]
      BY DEF TypeOK, SessionTypeOK
    <3>4. data[i] \in Seq(Blocks) /\ data' = [data EXCEPT ![i] = Written(t, data[i], m.block)]
      BY <2>2, <3>3 DEF TypeOK, DiskTypeOK
    <3>5. Written(t, data[i], m.block) \in Seq(Blocks)
      BY <1>3, <3>4, WrittenParts
    <3> QED
      BY <3>1, <3>2, <3>4, <3>5 DEF TypeOK, SessionTypeOK, DiskTypeOK
  <2> QED
    BY <1>2, <2>1, <2>2 DEF ReceiveChunk
<1>5. NetTypeOK' /\ \A u \in Tokens : SessionOK(u)'
  BY <1>1, Ignored
<1>6. SessionTypeOK' /\ DiskTypeOK'
  BY <1>1, <1>4 DEF TypeOK, SessionTypeOK, DiskTypeOK, Receiving, Current
<1> QED
  BY <1>1, <1>5, <1>6, TypesKept DEF TypeOK

\* What ReceiveDone does with the current file.
LEMMA ReceiveDoneParts ==
  ASSUME IInv, NEW t \in Tokens, ReceiveDone(t)
  PROVE  /\ rState[t] = "waiting" /\ Live(t) /\ toB[t] # <<>> /\ Head(toB[t]) \in Messages
         /\ Head(toB[t]).kind = "done"
         /\ toB' = [toB EXCEPT ![t] = Tail(@)]
         /\ UNCHANGED <<source, sState, sEntry, sFrom, sHash, served, cancelled, toA, data>>
         /\ \/ UNCHANGED <<rState, todo, name, inode, appending, rHash, part, final>>
            \/ /\ Head(toB[t]).file = Current(t) /\ Head(toB[t]).hash = rHash[t]
               /\ part[Destination(t)] # NoFile /\ Destination(t) \in Paths
               /\ final' = [final EXCEPT ![Destination(t)] = part[Destination(t)]]
               /\ part' = [part EXCEPT ![Destination(t)] = NoFile]
               /\ rState' = [rState EXCEPT ![t] = "setup"]
               /\ todo' = [todo EXCEPT ![t] = Tail(@)]
               /\ EntryEnds({t})
<1>1. /\ rState[t] = "waiting" /\ toB[t] # <<>> /\ Head(toB[t]).kind = "done"
      /\ toB' = [toB EXCEPT ![t] = Tail(@)]
      /\ UNCHANGED <<source, sState, sEntry, sFrom, sHash, served, cancelled, toA, data>>
  BY DEF ReceiveDone, Received, Consume, senderVars
<1>2. Head(toB[t]) \in Messages /\ Destination(t) \in Paths
  BY <1>1, DataParts, TailParts DEF IInv, Receiving
<1> QED
  BY <1>1, <1>2 DEF ReceiveDone, Live, sessionVars

LEMMA ReceiveDoneInv ==
  ASSUME IInv, NEW t \in Tokens, ReceiveDone(t)
  PROVE  IInv'
<1> USE DEF IInv
<1>1. /\ rState[t] = "waiting" /\ toB[t] # <<>> /\ Head(toB[t]).kind = "done"
      /\ toB' = [toB EXCEPT ![t] = Tail(@)]
      /\ UNCHANGED <<source, sState, sEntry, sFrom, sHash, served, cancelled, toA, data>>
  BY ReceiveDoneParts
<1>2. CASE UNCHANGED <<rState, todo, name, inode, appending, rHash, part, final>>
  <2>1. NetTypeOK' /\ \A u \in Tokens : SessionOK(u)'
    BY <1>1, <1>2, Ignored
  <2> QED
    BY <1>1, <1>2, <2>1, TypesKept DEF TypeOK
<1>3. CASE /\ Head(toB[t]).file = Current(t) /\ Destination(t) \in Paths
           /\ final' = [final EXCEPT ![Destination(t)] = part[Destination(t)]]
           /\ part' = [part EXCEPT ![Destination(t)] = NoFile]
           /\ rState' = [rState EXCEPT ![t] = "setup"]
           /\ todo' = [todo EXCEPT ![t] = Tail(@)]
           /\ EntryEnds({t})
  <2>1. todo[t] \in Seq(Entries) /\ todo[t] # <<>> /\ IsInjective(todo[t])
    BY <1>1, DataParts DEF Receiving, SessionOK, Todo
  <2>2. /\ Tail(todo[t]) \in Seq(Entries) /\ IsInjective(Tail(todo[t]))
        /\ Range(Tail(todo[t])) = Range(todo[t]) \ {Current(t)}
    BY <2>1, TailParts, InjectiveTail DEF Current
  <2>3. Current(t) \in DoneFiles(t)
    <3>1. Head(toB[t]) \in Range(toB[t])
      BY <1>1, DataParts, TailParts
    <3> QED
      BY <1>1, <1>3, <3>1 DEF DoneFiles
  <2>4. /\ toB' \in [Tokens -> Seq(Messages)] /\ DoneFiles(t)' \subseteq DoneFiles(t)
        /\ \A u \in Tokens : u # t => toB'[u] = toB[u]
    BY <1>1, ReadByReceiver
  <2>5. /\ rState' \in [Tokens -> {"none", "pending", "setup", "opening", "waiting", "done", "failed"}]
        /\ rState'[t] = "setup" /\ \A u \in Tokens : u # t => rState'[u] = rState[u]
        /\ todo' \in [Tokens -> Seq(Entries)] /\ todo'[t] = Tail(todo[t])
        /\ \A u \in Tokens : u # t => todo'[u] = todo[u]
    BY <1>3, <2>2 DEF TypeOK, SessionTypeOK
  <2>6. /\ name' \in [Tokens -> Names] /\ inode' \in [Tokens -> Inodes]
        /\ appending' \in [Tokens -> BOOLEAN]
    BY <1>3, Given DEF EntryEnds, TypeOK, SessionTypeOK, Inodes
  <2>7. rHash' \in [Tokens -> Seq(Blocks)]
    BY <1>3, EmptySeq DEF EntryEnds, TypeOK, SessionTypeOK
  <2>8. SessionTypeOK'
    <3>1. \A u \in Tokens : Receiving(u)' => Receiving(u) /\ todo'[u] = todo[u]
      BY <2>5 DEF Receiving
    <3> QED
      BY <2>5, <2>6, <2>7, <3>1 DEF TypeOK, SessionTypeOK, Current
  <2>9. DiskTypeOK'
    BY <1>1, <1>3 DEF TypeOK, DiskTypeOK
  <2>10. TypeOK'
    BY <1>1, <2>4, <2>8, <2>9, TypesKept DEF TypeOK, NetTypeOK
  <2>11. SessionOK(t)'
    <3>1. /\ AskedFiles(t)' = AskedFiles(t) /\ StreamFiles(t)' = StreamFiles(t)
          /\ Left(t) = Range(todo[t]) /\ Left(t)' = Left(t) \ {Current(t)}
          /\ Future(t) = Left(t) \ {Current(t)} /\ Future(t)' = Future(t)
      BY <1>1, <2>2, <2>5 DEF AskedFiles, StreamFiles, Left, Future
    <3>2. Begun(t)' /\ Todo(t)' /\ Once(toA[t])'
      BY <1>1, <2>2, <2>5 DEF SessionOK, Begun, Todo, Stages, Once
    <3>3. Stages(t)'
      BY <2>4, <3>1, <3>2 DEF SessionOK, Stages
    <3>4. Owed(t)'
      BY <1>1, <2>3, <2>4, <2>5, <3>1 DEF SessionOK, Owed
    <3> QED
      BY <3>2, <3>3, <3>4 DEF SessionOK
  <2>12. ASSUME NEW u \in Tokens, u # t PROVE SessionOK(u)'
    BY <1>1, <2>4, <2>5, <2>12, SessionKept
  <2> QED
    BY <2>10, <2>11, <2>12
<1> QED
  BY <1>2, <1>3, ReceiveDoneParts

-----------------------------------------------------------------------------
LEMMA NextInv ==
  ASSUME IInv, [Next]_vars
  PROVE  IInv'
<1>1. ASSUME NEW t \in Tokens,
             Offer(t) \/ CancelSend(t) \/ SenderTimeout(t) \/ SenderStep(t)
      PROVE  IInv'
  BY <1>1, OfferInv, CancelSendInv, SenderEndingsInv, HandleRequestInv, StreamBlockInv,
     StreamDoneInv DEF SenderStep
<1>2. ASSUME NEW t \in Tokens,
             Accept(t) \/ CancelReceive(t) \/ ReceiverTimeout(t) \/ ReceiverStep(t)
      PROVE  IInv'
  BY <1>2, AcceptInv, ReceiverEndingsInv, ReceiveOfferInv, CreateDirInv, ChooseNameInv,
     OpenPartInv, ReceiveChunkInv, ReceiveDoneInv, CompleteInv DEF ReceiverStep
<1>3. ASSUME NEW t \in Tokens, Break(t) \/ Drop(t) PROVE IInv'
  BY <1>3, BreakInv, DropInv
<1>4. ASSUME NEW f \in Files, Edit(f) PROVE IInv'
  BY <1>4, EditInv
<1>5. CASE CrashSender \/ CrashReceiver
  BY <1>5, CrashSenderInv, CrashReceiverInv
<1>6. CASE UNCHANGED vars
  <2>1. /\ UNCHANGED <<source, sState, sEntry, sFrom, sHash, served, cancelled, toB, toA>>
        /\ UNCHANGED <<rState, todo, name, inode, appending, rHash>>
        /\ UNCHANGED <<data, part, final>>
    BY <1>6 DEF vars, senderVars, netVars, sessionVars, diskVars
  <2>2. TypeOK'
    BY <2>1, TypesKept DEF IInv, TypeOK, NetTypeOK
  <2>3. \A t \in Tokens : SessionOK(t)'
    BY <2>1, SessionKept DEF IInv
  <2> QED
    BY <2>2, <2>3 DEF IInv
<1> QED
  BY <1>1, <1>2, <1>3, <1>4, <1>5, <1>6 DEF Next

-----------------------------------------------------------------------------
(* What holds with all faults. *)

\* IInv is an invariant: every file of a transfer is opened, asked for, streamed
\* and finished in this order and once, and a sender that is not done owes one.
THEOREM Invariance == Spec => []IInv
<1>1. Init => IInv
  BY InitInv
<1>2. IInv /\ [Next]_vars => IInv'
  BY NextInv
<1> QED
  BY <1>1, <1>2, PTL DEF Spec

\* Types; no stream reads past the end of its file.
THEOREM TypeCorrect == Spec => []TypeOK
<1>1. IInv => TypeOK
  BY DEF IInv
<1> QED
  BY <1>1, Invariance, PTL

\* The sender of files that the receiver has completed has not failed, whatever
\* was lost, cancelled or crashed in between.
THEOREM SenderAgrees == Spec => []CompletedAgrees
<1>1. IInv => CompletedAgrees
  <2> SUFFICES ASSUME IInv, NEW t \in Tokens, rState[t] = "done", EntriesOf(t) \subseteq Files,
                      sState[t] = "failed"
               PROVE  FALSE
    BY DEF CompletedAgrees
  <2>1. Left(t) = {}
    BY NothingIn DEF IInv, SessionOK, Todo, Left
  <2> QED
    BY <2>1 DEF IInv, SessionOK, Owed
<1> QED
  BY <1>1, Invariance, PTL

-----------------------------------------------------------------------------
(* What holds while no source changes as it is read, and no two live       *)
(* transfers write files of the same name.                                 *)

Calm == "overlap" \notin Faults /\ "editLive" \notin Faults

Version(f, v) == [k \in 1 .. Size[f] |-> v]

\* A stream is of one version.  Its end comes after what it ends, and what a
\* session has, and what is on its way to it, is not newer than that end.
Contents(t) ==
    /\ sState[t] = "streaming" => \A k \in 1 .. Len(sHash[t]) : sHash[t][k] = source[sEntry[t]]
    /\ \A m \in Range(toB[t]) :
         /\ m.kind = "chunk" => m.block <= source[m.file]
         /\ m.kind = "done" =>
              \E v \in 1 .. source[m.file] :
                 /\ m.hash = Version(m.file, v)
                 /\ \A c \in Range(toB[t]) : c.kind = "chunk" /\ c.file = m.file => c.block <= v
                 /\ rState[t] = "waiting" /\ m.file = Current(t) =>
                      \A k \in 1 .. Len(rHash[t]) : rHash[t][k] <= v
    /\ rState[t] = "waiting" => \A k \in 1 .. Len(rHash[t]) : rHash[t][k] <= source[Current(t)]

\* A file on disk has one name, that of the entry it was created for, and was
\* created by a transfer that has opened this entry.
Disk ==
    /\ \A p, q \in Paths :
         /\ part[p] # NoFile => (part[p] = part[q] => p = q) /\ part[p] # final[q]
         /\ final[p] # NoFile /\ final[p] = final[q] => p = q
    /\ \A p \in Paths : \A i \in {part[p], final[p]} \ {NoFile} :
         i[2] = p[1] /\ i[2] \notin Future(i[1])
    /\ \A i \in Inodes : \A k \in 1 .. Len(data[i]) : data[i][k] <= source[i[2]]

\* Such a session waits for what will never come.
Zombie(t) == rState[t] = "waiting" /\ ~Live(t)

Apart ==
    \A t, u \in Tokens :
        t # u /\ Receiving(t) /\ Receiving(u) /\ Current(t) = Current(u) => Zombie(t) \/ Zombie(u)

\* The name of a session is free, and its .part file has what it has hashed.
Place(t) ==
    /\ Receiving(t) /\ ~Zombie(t) => final[Destination(t)] = NoFile
    /\ rState[t] = "waiting" /\ Live(t) =>
          part[Destination(t)] = inode[t] /\ data[inode[t]] = rHash[t]

FilesInv == Apart /\ Disk /\ WholeFiles /\ \A t \in Tokens : Contents(t) /\ Place(t)

\* A step that opens no file and writes to none; a session that goes on, goes on
\* as it was.
Still ==
    /\ \A f \in Files : source'[f] \in Nat /\ source'[f] >= source[f]
    /\ UNCHANGED <<data, final>>
    /\ \A t \in Tokens :
         /\ Receiving(t)' =>
              /\ UNCHANGED <<rState[t], todo[t], name[t], inode[t], rHash[t]>>
              /\ Live(t)' => Live(t)
         /\ Future(t)' \subseteq Future(t)
    /\ \/ UNCHANGED part
       \/ \E t \in Tokens :
            /\ rState[t] = "waiting" /\ Live(t) /\ ~Receiving(t)'
            /\ part' = [part EXCEPT ![Destination(t)] = NoFile]

\* The sender and its messages.
Quiet(t) ==
    /\ \A m \in Range(toB'[t]) : m.kind \in {"chunk", "done"} => m \in Range(toB[t])
    /\ sState'[t] = "streaming" =>
          sHash'[t] = <<>> \/ UNCHANGED <<sState[t], sEntry[t], sHash[t]>>
    /\ rState'[t] = "waiting" => UNCHANGED <<rState[t], todo[t], rHash[t]>>

LEMMA ContentsKept ==
  ASSUME NEW t \in Tokens, Contents(t), UNCHANGED source, Quiet(t)
  PROVE  Contents(t)'
<1>1. sState'[t] = "streaming" => \A k \in 1 .. Len(sHash'[t]) : sHash'[t][k] = source[sEntry'[t]]
  BY EmptySeq DEF Contents, Quiet
<1>2. rState'[t] = "waiting" =>
        /\ rState[t] = "waiting" /\ rHash'[t] = rHash[t] /\ Head(todo'[t]) = Head(todo[t])
        /\ \A k \in 1 .. Len(rHash[t]) : rHash[t][k] <= source[Head(todo[t])]
  BY DEF Contents, Quiet, Current
<1>3. \A m \in Range(toB'[t]) : m.kind = "chunk" => m \in Range(toB[t]) /\ m.block <= source[m.file]
  BY DEF Contents, Quiet
<1>4. ASSUME NEW m \in Range(toB'[t]), m.kind = "done"
      PROVE  \E v \in 1 .. source[m.file] :
                /\ m.hash = Version(m.file, v)
                /\ \A c \in Range(toB'[t]) : c.kind = "chunk" /\ c.file = m.file => c.block <= v
                /\ rState'[t] = "waiting" /\ m.file = Head(todo'[t]) =>
                     \A k \in 1 .. Len(rHash'[t]) : rHash'[t][k] <= v
  <2>1. PICK v \in 1 .. source[m.file] :
          /\ m.hash = Version(m.file, v)
          /\ \A c \in Range(toB[t]) : c.kind = "chunk" /\ c.file = m.file => c.block <= v
          /\ rState[t] = "waiting" /\ m.file = Head(todo[t]) =>
               \A k \in 1 .. Len(rHash[t]) : rHash[t][k] <= v
    BY <1>4 DEF Contents, Quiet, Current
  <2>2. \A c \in Range(toB'[t]) : c.kind = "chunk" /\ c.file = m.file => c.block <= v
    BY <1>3, <2>1
  <2>3. rState'[t] = "waiting" /\ m.file = Head(todo'[t]) =>
          \A k \in 1 .. Len(rHash'[t]) : rHash'[t][k] <= v
    BY <1>2, <2>1
  <2> QED
    BY <2>1, <2>2, <2>3
<1> QED
  BY <1>1, <1>2, <1>3, <1>4 DEF Contents, Current

LEMMA StillKeeps ==
  ASSUME IInv, FilesInv, Still
  PROVE  Apart' /\ Disk' /\ WholeFiles' /\ \A t \in Tokens : Place(t)'
<1> USE DEF FilesInv
<1>1. \A t \in Tokens : Receiving(t)' =>
        /\ Receiving(t) /\ rState'[t] = rState[t] /\ Current(t)' = Current(t)
        /\ Destination(t)' = Destination(t) /\ inode'[t] = inode[t] /\ rHash'[t] = rHash[t]
        /\ Zombie(t) => Zombie(t)'
        /\ Live(t)' => Live(t)
  BY DEF Still, Receiving, Current, Destination, Zombie
<1>2. Apart'
  BY <1>1 DEF Apart
<1>3. \A p \in Paths : part'[p] = part[p] \/ part'[p] = NoFile
  BY DEF Still, IInv, TypeOK, DiskTypeOK
<1>4. Disk'
  <2>1. ASSUME NEW p \in Paths, NEW q \in Paths
        PROVE  /\ part'[p] # NoFile => (part'[p] = part'[q] => p = q) /\ part'[p] # final'[q]
               /\ final'[p] # NoFile /\ final'[p] = final'[q] => p = q
    BY <1>3 DEF Still, Disk
  <2>2. ASSUME NEW p \in Paths, NEW i \in {part'[p], final'[p]} \ {NoFile}
        PROVE  i[2] = p[1] /\ i[2] \notin Future(i[1])'
    <3>1. i \in {part[p], final[p]} \ {NoFile}
      BY <1>3, <2>2 DEF Still
    <3>2. i[1] \in Tokens
      BY <3>1 DEF IInv, TypeOK, DiskTypeOK, Inodes
    <3>3. PICK u \in Tokens : u = i[1]
      BY <3>2
    <3>4. i[2] = p[1] /\ i[2] \notin Future(u)
      BY <3>1, <3>3 DEF Disk
    <3>5. i[2] \notin Future(u)'
      BY <3>4 DEF Still
    <3> QED
      BY <3>3, <3>4, <3>5
  <2>3. ASSUME NEW i \in Inodes, NEW k \in 1 .. Len(data'[i])
        PROVE  data'[i][k] <= source'[i[2]]
    <3>1. data'[i] = data[i] /\ data[i][k] <= source[i[2]] /\ source'[i[2]] >= source[i[2]]
      BY <2>3 DEF Still, Disk, Inodes
    <3>2. i[2] \in Files /\ data[i] \in Seq(Blocks) /\ k \in 1 .. Len(data[i])
      BY <2>3, <3>1 DEF IInv, TypeOK, DiskTypeOK, Inodes
    <3>3. data[i][k] \in Nat
      BY <3>2, ElementOfSeq, Given DEF Blocks
    <3>4. source[i[2]] \in Nat /\ source'[i[2]] \in Nat
      BY <3>2, Given DEF Still, IInv, TypeOK, SenderTypeOK
    <3> QED
      BY <3>1, <3>3, <3>4
  <2> QED
    BY <2>1, <2>2, <2>3 DEF Disk
<1>5. WholeFiles'
  BY DEF Still, WholeFiles, WholeOf
<1>6. ASSUME NEW u \in Tokens PROVE Place(u)'
  <2>1. Receiving(u)' /\ ~Zombie(u)' => final'[Destination(u)'] = NoFile
    BY <1>1 DEF Place, Still
  <2>2. ASSUME rState'[u] = "waiting", Live(u)'
        PROVE  part'[Destination(u)'] = inode'[u] /\ data'[inode'[u]] = rHash'[u]
    <3>1. Receiving(u)' /\ Receiving(u) /\ rState[u] = "waiting" /\ Live(u) /\ ~Zombie(u)
      BY <1>1, <2>2 DEF Receiving, Zombie
    <3>2. part[Destination(u)] = inode[u] /\ data[inode[u]] = rHash[u]
      BY <3>1 DEF Place
    <3>3. part'[Destination(u)] = part[Destination(u)]
      <4>1. ASSUME NEW t \in Tokens, rState[t] = "waiting", Live(t), ~Receiving(t)'
            PROVE  Destination(t) # Destination(u)
        BY <3>1, <4>1 DEF Apart, Zombie, Receiving, Destination
      <4>2. Destination(u) \in Paths
        BY <3>1, DataParts DEF IInv
      <4> QED
        BY <4>1, <4>2 DEF Still, IInv, TypeOK, DiskTypeOK
    <3> QED
      BY <1>1, <3>1, <3>2, <3>3 DEF Still
  <2> QED
    BY <2>1, <2>2 DEF Place
<1> QED
  BY <1>2, <1>4, <1>5, <1>6

LEMMA FilesKept ==
  ASSUME IInv, FilesInv, Still, UNCHANGED source, \A t \in Tokens : Quiet(t)
  PROVE  FilesInv'
<1>1. \A t \in Tokens : Contents(t)'
  BY ContentsKept DEF FilesInv
<1> QED
  BY <1>1, StillKeeps DEF FilesInv

\* A step of sender_driver or of the network that sends nothing of a file.
LEMMA SenderQuiet ==
  ASSUME IInv, FilesInv, NEW t \in Tokens,
         UNCHANGED <<source, rState, todo, name, inode, rHash, data, part, final>>,
         \A u \in Tokens : u # t => UNCHANGED <<sState[u], sEntry[u], sHash[u], toB[u]>>,
         \A m \in Range(toB'[t]) : m.kind \in {"chunk", "done"} => m \in Range(toB[t]),
         sState'[t] = "streaming" =>
            sHash'[t] = <<>> \/ UNCHANGED <<sState[t], sEntry[t], sHash[t]>>,
         Receiving(t) /\ Live(t)' => Live(t)
  PROVE  FilesInv'
<1>1. \A u \in Tokens : Quiet(u)
  BY DEF Quiet
<1>2. ASSUME NEW u \in Tokens
      PROVE  /\ Receiving(u)' = Receiving(u) /\ Future(u)' = Future(u)
             /\ Receiving(u) /\ Live(u)' => Live(u)
  BY DEF Receiving, Future, Left, Current, Live
<1>3. \A f \in Files : source[f] \in Nat
  BY Given DEF IInv, TypeOK, SenderTypeOK
<1>4. Still
  BY <1>2, <1>3 DEF Still
<1> QED
  BY <1>1, <1>4, FilesKept

\* Sessions of receiver_driver that end, or go on to their next entry.
LEMMA ReceiverQuiet ==
  ASSUME IInv, FilesInv, NEW ts \in SUBSET Tokens,
         UNCHANGED <<source, sState, sEntry, sHash, data, final>>,
         \A u \in Tokens : Range(toB'[u]) \subseteq Range(toB[u]) /\ (toB[u] = <<>> => toB'[u] = <<>>),
         \A u \in Tokens :
            \/ u \notin ts /\ UNCHANGED <<rState[u], todo[u], name[u], inode[u], rHash[u]>>
            \/ u \in ts /\ ~Receiving(u)' /\ Future(u)' \subseteq Future(u),
         \/ UNCHANGED part
         \/ \E t \in ts : /\ rState[t] = "waiting" /\ Live(t)
                          /\ part' = [part EXCEPT ![Destination(t)] = NoFile]
  PROVE  FilesInv'
<1>1. \A u \in Tokens : Quiet(u)
  BY DEF Quiet, Receiving
<1>2. ASSUME NEW u \in Tokens
      PROVE  /\ Receiving(u)' => UNCHANGED <<rState[u], todo[u], name[u], inode[u], rHash[u]>>
             /\ Future(u)' \subseteq Future(u) /\ (Live(u)' => Live(u))
  BY DEF Receiving, Future, Left, Current, Live
<1>3. \A f \in Files : source[f] \in Nat
  BY Given DEF IInv, TypeOK, SenderTypeOK
<1>4. UNCHANGED part \/ \E t \in Tokens :
            /\ rState[t] = "waiting" /\ Live(t) /\ ~Receiving(t)'
            /\ part' = [part EXCEPT ![Destination(t)] = NoFile]
  OBVIOUS
<1>5. Still
  BY <1>2, <1>3, <1>4 DEF Still
<1> QED
  BY <1>1, <1>5, FilesKept

LEMMA SenderFiles ==
  ASSUME IInv, FilesInv, NEW t \in Tokens,
         \/ Offer(t) \/ CancelSend(t) \/ HandleRequest(t) \/ StreamFails(t) \/ SenderCancelled(t)
         \/ SenderAborted(t) \/ SenderTimeout(t)
  PROVE  FilesInv'
<1> USE DEF IInv
<1>1. CASE Offer(t)
  <2>1. /\ sState[t] = "none" /\ ToReceiver(t, [kind |-> "offer"])
        /\ sState' = [sState EXCEPT ![t] = "open"]
        /\ UNCHANGED <<source, sEntry, sHash, rState, todo, name, inode, rHash, data, part, final>>
    BY <1>1 DEF Offer, sessionVars, diskVars
  <2>2. /\ Range(toB'[t]) = Range(toB[t]) \cup {[kind |-> "offer"]}
        /\ \A u \in Tokens : u # t => toB'[u] = toB[u]
    BY <2>1, SentToReceiver, MessageParts
  <2>3. rState[t] = "none"
    BY <2>1 DEF SessionOK, Begun
  <2>4. sState'[t] = "open" /\ \A u \in Tokens : u # t => sState'[u] = sState[u]
    BY <2>1 DEF TypeOK, SenderTypeOK
  <2> QED
    BY <2>1, <2>2, <2>3, <2>4, SenderQuiet DEF Receiving
<1>2. CASE CancelSend(t)
  BY <1>2, SenderQuiet DEF CancelSend, netVars, sessionVars, diskVars, Live
<1>3. CASE HandleRequest(t)
  <2>1. /\ sState[t] = "open"
        /\ sState' = [sState EXCEPT ![t] = "streaming"]
        /\ sEntry' = [sEntry EXCEPT ![t] = Head(toA[t]).file] /\ sHash' = [sHash EXCEPT ![t] = <<>>]
        /\ UNCHANGED <<source, toB, rState, todo, name, inode, rHash, data, part, final>>
    BY <1>3 DEF HandleRequest, sessionVars, diskVars
  <2>2. sHash'[t] = <<>> /\ \A u \in Tokens : u # t => UNCHANGED <<sState[u], sEntry[u], sHash[u]>>
    BY <2>1 DEF TypeOK, SenderTypeOK
  <2> QED
    BY <2>1, <2>2, SenderQuiet DEF Live
<1>4. CASE StreamFails(t) \/ SenderCancelled(t) \/ SenderAborted(t) \/ SenderTimeout(t)
  <2>1. /\ sState[t] \in {"open", "streaming"} /\ SenderEnds({t}, "failed")
        /\ TellReceiver(t) \/ UNCHANGED toB
        /\ UNCHANGED <<source, rState, todo, name, inode, rHash, data, part, final>>
    BY <1>4 DEF StreamFails, SenderCancelled, SenderAborted, SenderTimeout, netVars, sessionVars,
                diskVars
  <2>2. /\ sState'[t] = "failed"
        /\ \A u \in Tokens : u # t => UNCHANGED <<sState[u], sEntry[u], sHash[u]>>
    BY <2>1, SenderEndsParts
  <2>3. /\ Range(toB'[t]) \subseteq Range(toB[t]) \cup {Abort}
        /\ \A u \in Tokens : u # t => toB'[u] = toB[u]
    BY <2>1, ToldReceiver
  <2> QED
    BY <2>1, <2>2, <2>3, SenderQuiet, MessageParts DEF Live
<1> QED
  BY <1>1, <1>2, <1>3, <1>4

LEMMA CrashSenderFiles ==
  ASSUME IInv, FilesInv, CrashSender
  PROVE  FilesInv'
<1>1. PICK ts \in SUBSET Tokens : SenderEnds(ts, "failed")
  BY DEF CrashSender
<1>2. UNCHANGED <<source, toB, rState, todo, name, inode, rHash, data, part, final>>
  BY DEF CrashSender, sessionVars, diskVars
<1>3. \A t \in Tokens : /\ t \in ts => sState'[t] = "failed"
                        /\ t \notin ts => UNCHANGED <<sState[t], sEntry[t], sHash[t]>>
  BY <1>1, <1>2, SenderEndsParts DEF IInv
<1>4. \A t \in Tokens : Quiet(t)
  BY <1>2, <1>3 DEF Quiet
<1>5. \A t \in Tokens : /\ Receiving(t)' = Receiving(t) /\ Future(t)' = Future(t)
                        /\ Live(t)' => Live(t)
  BY <1>2, <1>3 DEF Receiving, Future, Left, Current, Live
<1>6. \A f \in Files : source[f] \in Nat
  BY Given DEF IInv, TypeOK, SenderTypeOK
<1>7. Still
  BY <1>2, <1>5, <1>6 DEF Still
<1> QED
  BY <1>2, <1>4, <1>7, FilesKept

LEMMA NetworkFiles ==
  ASSUME IInv, FilesInv, NEW t \in Tokens, Break(t) \/ Drop(t)
  PROVE  FilesInv'
<1> USE DEF IInv
<1>1. /\ UNCHANGED <<source, sState, sEntry, sHash, rState, todo, name, inode, rHash>>
      /\ UNCHANGED <<data, part, final>>
  BY DEF Break, Drop, senderVars, sessionVars, diskVars
<1>2. /\ Range(toB'[t]) \subseteq Range(toB[t]) /\ (toB[t] = <<>> => toB'[t] = <<>>)
      /\ \A u \in Tokens : u # t => toB'[u] = toB[u]
  <2>1. CASE Break(t)
    <3>1. PICK n \in 0 .. Len(toB[t]) : toB' = [toB EXCEPT ![t] = SubSeq(toB[t], 1, n)]
      BY <2>1 DEF Break, TypeOK, NetTypeOK
    <3>2. /\ SubSeq(toB[t], 1, n) \in Seq(Messages) /\ Range(SubSeq(toB[t], 1, n)) \subseteq Range(toB[t])
          /\ Len(SubSeq(toB[t], 1, n)) = n
      BY DataParts, PrefixParts
    <3>3. toB[t] = <<>> => SubSeq(toB[t], 1, n) = <<>>
      BY <3>2, EmptySeq
    <3> QED
      BY <3>1, <3>2, <3>3 DEF TypeOK, NetTypeOK
  <2>2. CASE Drop(t)
    <3>1. UNCHANGED toB \/ (toB[t] # <<>> /\ toB' = [toB EXCEPT ![t] = Tail(@)])
      BY <2>2 DEF Drop
    <3> QED
      BY <3>1, ReadByReceiver
  <2> QED
    BY <2>1, <2>2
<1> QED
  BY <1>1, <1>2, SenderQuiet DEF Live

LEMMA ReceiverFiles ==
  ASSUME IInv, FilesInv, NEW t \in Tokens,
         \/ ReceiveOffer(t) \/ Accept(t) \/ CancelReceive(t) \/ ReceiveAbort(t)
         \/ ReceiverTimeout(t) \/ CreateDir(t) \/ OpenFails(t) \/ ChunkFails(t) \/ DoneFails(t)
         \/ Complete(t)
  PROVE  FilesInv'
<1> USE DEF IInv
<1>1. /\ UNCHANGED toB \/ (toB[t] # <<>> /\ toB' = [toB EXCEPT ![t] = Tail(@)])
      /\ UNCHANGED <<source, sState, sEntry, sHash, data, final>>
      /\ \/ UNCHANGED part
         \/ /\ rState[t] = "waiting" /\ toB[t] # <<>>
            /\ part' = [part EXCEPT ![Destination(t)] = NoFile]
  BY DEF ReceiveOffer, Accept, CancelReceive, ReceiveAbort, ReceiverTimeout, CreateDir, OpenFails,
         ChunkFails, DoneFails, Complete, Received, Consume, netVars, senderVars, diskVars
<1>2. \A u \in Tokens : Range(toB'[u]) \subseteq Range(toB[u]) /\ (toB[u] = <<>> => toB'[u] = <<>>)
  BY <1>1, ReadByReceiver
<1>3. /\ ~Receiving(t)' /\ Future(t)' \subseteq Future(t)
      /\ \A u \in Tokens : u # t => UNCHANGED <<rState[u], todo[u], name[u], inode[u], rHash[u]>>
  <2>1. CASE ReceiveOffer(t)
    <3>1. /\ rState[t] = "none" /\ rState' = [rState EXCEPT ![t] = "pending"]
          /\ UNCHANGED <<todo, name, inode, rHash>>
      BY <2>1 DEF ReceiveOffer
    <3>2. rState'[t] = "pending" /\ \A u \in Tokens : u # t => rState'[u] = rState[u]
      BY <3>1 DEF TypeOK, SessionTypeOK
    <3> QED
      BY <3>1, <3>2 DEF Receiving, Future, Left
  <2>2. CASE Accept(t)
    <3>1. /\ rState[t] = "pending" /\ rState' = [rState EXCEPT ![t] = "setup"]
          /\ todo' = [todo EXCEPT ![t] = Manifest[t]]
          /\ UNCHANGED <<name, inode, rHash>>
      BY <2>2 DEF Accept
    <3>2. /\ rState'[t] = "setup" /\ todo'[t] = Manifest[t]
          /\ \A u \in Tokens : u # t => rState'[u] = rState[u] /\ todo'[u] = todo[u]
      BY <3>1 DEF TypeOK, SessionTypeOK
    <3> QED
      BY <3>1, <3>2 DEF Receiving, Future, Left, EntriesOf
  <2>3. CASE CreateDir(t)
    <3>1. /\ rState[t] = "setup" /\ todo[t] # <<>> /\ todo' = [todo EXCEPT ![t] = Tail(todo[t])]
          /\ UNCHANGED <<rState, name, inode, rHash>>
      BY <2>3 DEF CreateDir, TypeOK, SessionTypeOK
    <3>2. todo'[t] = Tail(todo[t]) /\ \A u \in Tokens : u # t => todo'[u] = todo[u]
      BY <3>1 DEF TypeOK, SessionTypeOK
    <3>3. Range(Tail(todo[t])) \subseteq Range(todo[t])
      BY <3>1, DataParts, TailParts
    <3> QED
      BY <3>1, <3>2, <3>3 DEF Receiving, Future, Left
  <2>4. CASE Complete(t)
    <3>1. rState[t] = "setup" /\ todo[t] = <<>> /\ ReceiverEnds({t}, "done")
      BY <2>4 DEF Complete
    <3> QED
      BY <3>1, ReceiverEndsParts, NothingIn DEF Receiving, Future, Left
  <2>5. CASE \/ CancelReceive(t) \/ ReceiveAbort(t) \/ ReceiverTimeout(t) \/ OpenFails(t)
             \/ ChunkFails(t) \/ DoneFails(t)
    <3>1. ReceiverEnds({t}, "failed")
      BY <2>5 DEF CancelReceive, ReceiveAbort, ReceiverTimeout, OpenFails, ChunkFails, DoneFails
    <3> QED
      BY <3>1, ReceiverEndsParts, NothingIn DEF Receiving, Future, Left
  <2> QED
    BY <2>1, <2>2, <2>3, <2>4, <2>5
<1> DEFINE ts == {t}
<1>4. \A u \in Tokens :
        \/ u \notin ts /\ UNCHANGED <<rState[u], todo[u], name[u], inode[u], rHash[u]>>
        \/ u \in ts /\ ~Receiving(u)' /\ Future(u)' \subseteq Future(u)
  BY <1>3
<1>5. \/ UNCHANGED part
      \/ \E u \in ts : /\ rState[u] = "waiting" /\ Live(u)
                       /\ part' = [part EXCEPT ![Destination(u)] = NoFile]
  BY <1>1 DEF Live
<1>6. ts \in SUBSET Tokens
  OBVIOUS
<1> HIDE DEF ts
<1> QED
  BY <1>1, <1>2, <1>4, <1>5, <1>6, ReceiverQuiet

LEMMA CrashReceiverFiles ==
  ASSUME IInv, FilesInv, CrashReceiver
  PROVE  FilesInv'
<1>1. PICK ts \in SUBSET Tokens : ReceiverEnds(ts, "failed")
  BY DEF CrashReceiver
<1>2. /\ UNCHANGED <<source, sState, sEntry, sHash, data, final, part>>
      /\ toB' = [t \in Tokens |-> <<>>]
  BY DEF CrashReceiver, senderVars, diskVars
<1>3. \A u \in Tokens :
        \/ u \notin ts /\ UNCHANGED <<rState[u], todo[u], name[u], inode[u], rHash[u]>>
        \/ u \in ts /\ ~Receiving(u)' /\ Future(u)' \subseteq Future(u)
  BY <1>1, ReceiverEndsParts, NothingIn DEF IInv, Receiving, Future, Left
<1>4. \A u \in Tokens : Range(toB'[u]) \subseteq Range(toB[u]) /\ (toB[u] = <<>> => toB'[u] = <<>>)
  BY <1>2, NothingIn
<1> QED
  BY <1>2, <1>3, <1>4, ReceiverQuiet

\* A chunk or an end that is not of the current file.
LEMMA IgnoredFiles ==
  ASSUME IInv, FilesInv, NEW t \in Tokens, toB[t] # <<>>, toB' = [toB EXCEPT ![t] = Tail(@)],
         UNCHANGED <<source, sState, sEntry, sHash, rState, todo, name, inode, rHash>>,
         UNCHANGED <<data, part, final>>
  PROVE  FilesInv'
<1>1. /\ Range(toB'[t]) \subseteq Range(toB[t]) /\ \A u \in Tokens : u # t => toB'[u] = toB[u]
  BY ReadByReceiver DEF IInv
<1> QED
  BY <1>1, SenderQuiet DEF Live

-----------------------------------------------------------------------------
(* A step that sends, or edits. *)

LEMMA StreamBlockFiles ==
  ASSUME IInv, FilesInv, NEW t \in Tokens, StreamBlock(t)
  PROVE  FilesInv'
<1> USE DEF IInv
<1>1. PICK f \in Files : f = sEntry[t]
  BY DataParts
<1>2. /\ sState[t] = "streaming" /\ sHash' = [sHash EXCEPT ![t] = Append(sHash[t], source[f])]
      /\ \/ UNCHANGED toB
         \/ ToReceiver(t, [kind |-> "chunk", file |-> f, at |-> Len(sHash[t]), block |-> source[f]])
      /\ UNCHANGED <<source, sState, sEntry, rState, todo, name, inode, rHash, data, part, final>>
  BY <1>1 DEF StreamBlock, sessionVars, diskVars, TypeOK, SenderTypeOK
<1>3. source[f] \in Blocks /\ source[f] \in Nat /\ sHash[t] \in Seq(Blocks) /\ Len(sHash[t]) \in Nat
  BY Given, DataParts, LenProperties DEF TypeOK, SenderTypeOK, Blocks
<1>4. PICK c \in Messages :
        c = [kind |-> "chunk", file |-> f, at |-> Len(sHash[t]), block |-> source[f]]
  BY <1>3, MessageParts
<1>5. /\ Range(toB'[t]) \subseteq Range(toB[t]) \cup {c}
      /\ \A u \in Tokens : u # t => toB'[u] = toB[u]
  BY <1>2, <1>4, SentToReceiver
<1>6. Still
  <2>1. \A u \in Tokens : /\ Receiving(u)' = Receiving(u) /\ Future(u)' = Future(u)
                          /\ Live(u)' => Live(u)
    BY <1>2, <1>5 DEF Receiving, Future, Left, Current, Live
  <2>2. \A g \in Files : source[g] \in Nat
    BY Given DEF TypeOK, SenderTypeOK
  <2> QED
    BY <1>2, <2>1, <2>2 DEF Still
<1>7. ASSUME NEW u \in Tokens, u # t PROVE Contents(u)'
  <2>1. Quiet(u)
    BY <1>2, <1>5, <1>7 DEF Quiet, TypeOK, SenderTypeOK
  <2> QED
    BY <1>2, <2>1, ContentsKept DEF FilesInv
<1>8. Contents(t)'
  <2>1. Contents(t) /\ StreamFiles(t) \cap DoneFiles(t) = {}
    BY DEF FilesInv, SessionOK, Stages
  <2>2. \A k \in 1 .. Len(sHash'[t]) : sHash'[t][k] = source[f]
    <3>1. sHash'[t] = Append(sHash[t], source[f])
      BY <1>2 DEF TypeOK, SenderTypeOK
    <3>2. \A k \in 1 .. Len(sHash[t]) : sHash[t][k] = source[f]
      BY <1>1, <1>2, <2>1 DEF Contents
    <3>3. \A k \in 1 .. Len(sHash[t]) + 1 : k \in 1 .. Len(sHash[t]) \/ k = Len(sHash[t]) + 1
      BY <1>3
    <3> QED
      BY <1>3, <3>1, <3>2, <3>3, AppendParts
  <2>3. \A m \in Range(toB'[t]) : m.kind = "chunk" => m.block <= source[m.file]
    BY <1>3, <1>4, <1>5, <2>1 DEF Contents
  <2>4. ASSUME NEW m \in Range(toB'[t]), m.kind = "done"
        PROVE  \E v \in 1 .. source[m.file] :
                 /\ m.hash = Version(m.file, v)
                 /\ \A d \in Range(toB'[t]) : d.kind = "chunk" /\ d.file = m.file => d.block <= v
                 /\ rState[t] = "waiting" /\ m.file = Current(t) =>
                      \A k \in 1 .. Len(rHash[t]) : rHash[t][k] <= v
    <3>1. m \in Range(toB[t]) /\ m.file # f
      BY <1>1, <1>2, <1>4, <1>5, <2>1, <2>4 DEF StreamFiles, DoneFiles
    <3>2. PICK v \in 1 .. source[m.file] :
             /\ m.hash = Version(m.file, v)
             /\ \A d \in Range(toB[t]) : d.kind = "chunk" /\ d.file = m.file => d.block <= v
             /\ rState[t] = "waiting" /\ m.file = Current(t) =>
                  \A k \in 1 .. Len(rHash[t]) : rHash[t][k] <= v
      BY <2>1, <2>4, <3>1 DEF Contents
    <3>3. \A d \in Range(toB'[t]) : d.kind = "chunk" /\ d.file = m.file => d.block <= v
      BY <1>4, <1>5, <3>1, <3>2
    <3> QED
      BY <3>2, <3>3
  <2>5. Current(t)' = Current(t)
    BY <1>2 DEF Current
  <2> QED
    BY <1>1, <1>2, <2>1, <2>2, <2>3, <2>4, <2>5 DEF Contents
<1> QED
  BY <1>6, <1>7, <1>8, StillKeeps DEF FilesInv

LEMMA BlockParts ==
  ASSUME TypeOK, NEW t \in Tokens
  PROVE  /\ \A m \in Range(toB[t]) : m \in Messages
         /\ \A m \in Range(toB[t]) : m.kind = "chunk" => m.file \in Files /\ m.block \in Nat
         /\ \A m \in Range(toB[t]) : m.kind = "done" => m.file \in Files /\ m.hash \in Seq(Blocks)
         /\ \A k \in 1 .. Len(rHash[t]) : rHash[t][k] \in Nat
         /\ \A k \in 1 .. Len(sHash[t]) : sHash[t][k] \in Nat
         /\ \A f \in Files : source[f] \in Nat /\ source[f] >= 1
<1>1. Blocks \subseteq Nat
  BY Given DEF Blocks
<1>2. toB[t] \in Seq(Messages) /\ rHash[t] \in Seq(Blocks) /\ sHash[t] \in Seq(Blocks)
  BY DataParts
<1>3. \A m \in Range(toB[t]) : m \in Messages
  BY <1>2, ElementOfSeq, LenProperties DEF Range
<1>4. /\ \A k \in 1 .. Len(rHash[t]) : rHash[t][k] \in Nat
      /\ \A k \in 1 .. Len(sHash[t]) : sHash[t][k] \in Nat
  BY <1>1, <1>2, ElementOfSeq
<1>5. \A f \in Files : source[f] \in Nat /\ source[f] >= 1
  BY Given DEF TypeOK, SenderTypeOK
<1> QED
  BY <1>1, <1>3, <1>4, <1>5, MessageParts

LEMMA StreamDoneFiles ==
  ASSUME IInv, FilesInv, NEW t \in Tokens, StreamDone(t)
  PROVE  FilesInv'
<1> USE DEF IInv
<1>1. PICK f \in Files : f = sEntry[t]
  BY DataParts
<1>2. PICK m \in Messages : m = [kind |-> "done", file |-> f, hash |-> sHash[t]]
  BY DataParts, MessageParts
<1>3. /\ sState[t] = "streaming" /\ ToReceiver(t, m) /\ FileServed(t) /\ Len(sHash[t]) = Size[f]
      /\ UNCHANGED <<source, rState, todo, name, inode, rHash, data, part, final>>
  BY <1>1, <1>2 DEF StreamDone, sessionVars, diskVars
<1>4. /\ Range(toB'[t]) = Range(toB[t]) \cup {m}
      /\ \A u \in Tokens : u # t => toB'[u] = toB[u]
  BY <1>3, SentToReceiver
<1>5. /\ sState'[t] # "streaming"
      /\ \A u \in Tokens : u # t => UNCHANGED <<sState[u], sEntry[u], sHash[u]>>
  <2>1. CASE SenderEnds({t}, "done")
    BY <1>3, <2>1, SenderEndsParts
  <2>2. CASE sState' = [sState EXCEPT ![t] = "open"] /\ StreamEnds({t})
    BY <2>2 DEF StreamEnds, TypeOK, SenderTypeOK
  <2> QED
    BY <1>3, <2>1, <2>2 DEF FileServed
<1>6. Still
  <2>1. \A u \in Tokens : /\ Receiving(u)' = Receiving(u) /\ Future(u)' = Future(u)
                          /\ Live(u)' => Live(u)
    BY <1>3, <1>4, <1>5 DEF Receiving, Future, Left, Current, Live
  <2>2. \A g \in Files : source[g] \in Nat
    BY BlockParts
  <2> QED
    BY <1>3, <2>1, <2>2 DEF Still
<1>7. ASSUME NEW u \in Tokens, u # t PROVE Contents(u)'
  <2>1. Quiet(u)
    BY <1>3, <1>4, <1>5, <1>7 DEF Quiet
  <2> QED
    BY <1>3, <2>1, ContentsKept DEF FilesInv
<1>8. Contents(t)'
  <2>1. Contents(t) /\ source[f] \in 1 .. source[f]
    BY BlockParts DEF FilesInv
  <2>2. sHash[t] = Version(f, source[f])
    <3>1. DOMAIN sHash[t] = 1 .. Size[f] /\ sHash[t] = [k \in DOMAIN sHash[t] |-> sHash[t][k]]
      <4>1. sHash[t] \in Seq(Blocks)
        BY DataParts
      <4> QED
        BY <1>3, <4>1, SeqDef, LenProperties
    <3>2. \A k \in 1 .. Size[f] : sHash[t][k] = source[f]
      BY <1>1, <1>3, <2>1 DEF Contents
    <3> QED
      BY <3>1, <3>2 DEF Version
  <2>3. \A c \in Range(toB'[t]) : c.kind = "chunk" => c \in Range(toB[t]) /\ c.block <= source[c.file]
    BY <1>2, <1>4, <2>1 DEF Contents
  <2>4. Current(t)' = Current(t)
    BY <1>3 DEF Current
  <2>5. ASSUME NEW d \in Range(toB'[t]), d.kind = "done"
        PROVE  \E v \in 1 .. source[d.file] :
                 /\ d.hash = Version(d.file, v)
                 /\ \A c \in Range(toB'[t]) : c.kind = "chunk" /\ c.file = d.file => c.block <= v
                 /\ rState[t] = "waiting" /\ d.file = Current(t) =>
                      \A k \in 1 .. Len(rHash[t]) : rHash[t][k] <= v
    <3>1. CASE d = m
      <4>1. d.file = f /\ d.hash = Version(f, source[f])
        BY <1>2, <2>2, <3>1
      <4>2. \A c \in Range(toB'[t]) : c.kind = "chunk" /\ c.file = f => c.block <= source[f]
        BY <2>3
      <4>3. rState[t] = "waiting" /\ f = Current(t) => \A k \in 1 .. Len(rHash[t]) : rHash[t][k] <= source[f]
        BY <2>1 DEF Contents
      <4> QED
        BY <2>1, <4>1, <4>2, <4>3
    <3>2. CASE d # m
      <4>1. d \in Range(toB[t])
        BY <1>4, <3>2
      <4>2. PICK v \in 1 .. source[d.file] :
               /\ d.hash = Version(d.file, v)
               /\ \A c \in Range(toB[t]) : c.kind = "chunk" /\ c.file = d.file => c.block <= v
               /\ rState[t] = "waiting" /\ d.file = Current(t) =>
                    \A k \in 1 .. Len(rHash[t]) : rHash[t][k] <= v
        BY <2>1, <2>5, <4>1 DEF Contents
      <4>3. \A c \in Range(toB'[t]) : c.kind = "chunk" /\ c.file = d.file => c.block <= v
        BY <2>3, <4>2
      <4> QED
        BY <4>2, <4>3
    <3> QED
      BY <3>1, <3>2
  <2> QED
    BY <1>3, <1>5, <2>1, <2>3, <2>4, <2>5 DEF Contents
<1> QED
  BY <1>6, <1>7, <1>8, StillKeeps DEF FilesInv

LEMMA EditFiles ==
  ASSUME IInv, FilesInv, Calm, NEW f \in Files, Edit(f)
  PROVE  FilesInv'
<1> USE DEF IInv
<1>1. /\ \A t \in Tokens : sState[t] = "streaming" => sEntry[t] # f
      /\ source' = [source EXCEPT ![f] = source[f] + 1]
      /\ UNCHANGED <<sState, sEntry, sHash, toB, rState, todo, name, inode, rHash>>
      /\ UNCHANGED <<data, part, final>>
  BY DEF Calm, Edit, senderVars, netVars, sessionVars, diskVars, TypeOK, SenderTypeOK
<1>2. \A g \in Files : /\ source[g] \in Nat /\ source'[g] \in Nat /\ source'[g] >= source[g]
                       /\ g # f => source'[g] = source[g]
  BY <1>1, Given DEF TypeOK, SenderTypeOK
<1>3. Still
  <2>1. \A u \in Tokens : /\ Receiving(u)' = Receiving(u) /\ Future(u)' = Future(u)
                          /\ Live(u)' => Live(u)
    BY <1>1 DEF Receiving, Future, Left, Current, Live
  <2> QED
    BY <1>1, <1>2, <2>1 DEF Still
<1>4. ASSUME NEW t \in Tokens PROVE Contents(t)'
  <2>1. Contents(t)
    BY DEF FilesInv
  <2>2. sState[t] = "streaming" => source'[sEntry[t]] = source[sEntry[t]]
    BY <1>1, <1>2, DataParts
  <2>3. \A m \in Range(toB[t]) : m.kind = "chunk" => m.block <= source'[m.file]
    <3>1. ASSUME NEW m \in Range(toB[t]), m.kind = "chunk" PROVE m.block <= source'[m.file]
      <4>1. m.file \in Files /\ m.block \in Nat /\ m.block <= source[m.file]
        BY <2>1, <3>1, BlockParts DEF Contents
      <4> QED
        BY <1>2, <4>1
    <3> QED
      BY <3>1
  <2>4. \A m \in Range(toB[t]) : m.kind = "done" =>
           \E v \in 1 .. source'[m.file] :
             /\ m.hash = Version(m.file, v)
             /\ \A c \in Range(toB[t]) : c.kind = "chunk" /\ c.file = m.file => c.block <= v
             /\ rState[t] = "waiting" /\ m.file = Current(t) =>
                  \A k \in 1 .. Len(rHash[t]) : rHash[t][k] <= v
    <3>1. SUFFICES ASSUME NEW m \in Range(toB[t]), m.kind = "done"
                   PROVE  \E v \in 1 .. source'[m.file] :
                            /\ m.hash = Version(m.file, v)
                            /\ \A c \in Range(toB[t]) : c.kind = "chunk" /\ c.file = m.file => c.block <= v
                            /\ rState[t] = "waiting" /\ m.file = Current(t) =>
                                 \A k \in 1 .. Len(rHash[t]) : rHash[t][k] <= v
      OBVIOUS
    <3>2. PICK v \in 1 .. source[m.file] :
            /\ m.hash = Version(m.file, v)
            /\ \A c \in Range(toB[t]) : c.kind = "chunk" /\ c.file = m.file => c.block <= v
            /\ rState[t] = "waiting" /\ m.file = Current(t) =>
                 \A k \in 1 .. Len(rHash[t]) : rHash[t][k] <= v
      BY <2>1, <3>1 DEF Contents
    <3>3. m.file \in Files
      BY <3>1, BlockParts
    <3>4. v \in 1 .. source'[m.file]
      BY <1>2, <3>2, <3>3
    <3> QED
      BY <3>2, <3>4
  <2>5. rState[t] = "waiting" => \A k \in 1 .. Len(rHash[t]) : rHash[t][k] <= source'[Current(t)]
    <3>1. ASSUME rState[t] = "waiting", NEW k \in 1 .. Len(rHash[t])
          PROVE  rHash[t][k] <= source'[Current(t)]
      <4>1. Current(t) \in Files /\ rHash[t][k] \in Nat /\ rHash[t][k] <= source[Current(t)]
        BY <2>1, <3>1, BlockParts, DataParts DEF Contents, Receiving
      <4> QED
        BY <1>2, <4>1
    <3> QED
      BY <3>1
  <2>6. Current(t)' = Current(t)
    BY <1>1 DEF Current
  <2> QED
    BY <1>1, <2>1, <2>2, <2>3, <2>4, <2>5, <2>6 DEF Contents
<1> QED
  BY <1>3, <1>4, StillKeeps DEF FilesInv

-----------------------------------------------------------------------------
(* A step that names a file, opens, writes or finishes it. *)

LEMMA ChooseNameFiles ==
  ASSUME IInv, FilesInv, Calm, NEW t \in Tokens, ChooseName(t)
  PROVE  FilesInv'
<1> USE DEF IInv
<1>1. PICK n \in Names : name' = [name EXCEPT ![t] = n] /\ final[<<Current(t), n>>] = NoFile
  BY DEF ChooseName
<1>2. /\ rState[t] = "setup" /\ todo[t] # <<>> /\ Current(t) \in Files /\ Alone(t)
      /\ rState' = [rState EXCEPT ![t] = "opening"]
      /\ UNCHANGED <<source, sState, sEntry, sHash, toB, todo, inode, rHash, data, part, final>>
  BY DEF ChooseName, Calm, senderVars, netVars, diskVars
<1>3. /\ rState'[t] = "opening" /\ name'[t] = n
      /\ \A u \in Tokens : u # t => rState'[u] = rState[u] /\ name'[u] = name[u]
  BY <1>1, <1>2 DEF TypeOK, SessionTypeOK
<1>4. \A u \in Tokens : /\ Current(u)' = Current(u) /\ Live(u)' = Live(u) /\ Future(u)' = Future(u)
                        /\ u # t => /\ Receiving(u)' = Receiving(u) /\ Zombie(u)' = Zombie(u)
                                    /\ Destination(u)' = Destination(u)
  BY <1>2, <1>3 DEF Current, Live, Future, Left, Receiving, Zombie, Destination
<1>5. \A u \in Tokens : u # t /\ Receiving(u) /\ Current(u) = Current(t) => Zombie(u)
  BY <1>2 DEF Alone, Zombie
<1>6. Apart'
  BY <1>4, <1>5 DEF Apart, FilesInv
<1>7. Disk'
  <2>1. ASSUME NEW p \in Paths, NEW i \in {part[p], final[p]} \ {NoFile}
        PROVE  i[2] = p[1] /\ i[2] \notin Future(i[1])'
    <3>1. i[1] \in Tokens
      BY <2>1 DEF TypeOK, DiskTypeOK, Inodes
    <3>2. PICK u \in Tokens : u = i[1]
      BY <3>1
    <3> QED
      BY <1>4, <2>1, <3>2 DEF FilesInv, Disk
  <2> QED
    BY <1>2, <2>1 DEF FilesInv, Disk
<1>8. WholeFiles'
  BY <1>2 DEF WholeFiles, FilesInv, WholeOf
<1>9. ASSUME NEW u \in Tokens PROVE Contents(u)'
  <2>1. Quiet(u)
    BY <1>2, <1>3 DEF Quiet
  <2> QED
    BY <1>2, <2>1, ContentsKept DEF FilesInv
<1>10. ASSUME NEW u \in Tokens PROVE Place(u)'
  <2>1. CASE u = t
    <3>1. final'[Destination(u)'] = NoFile /\ rState'[u] # "waiting"
      BY <1>1, <1>2, <1>3, <2>1 DEF Destination, Current
    <3> QED
      BY <3>1 DEF Place
  <2>2. CASE u # t
    BY <1>2, <1>3, <1>4, <2>2 DEF Place, FilesInv
  <2> QED
    BY <2>1, <2>2
<1> QED
  BY <1>6, <1>7, <1>8, <1>9, <1>10 DEF FilesInv

\* Sessions that are not zombies write to different files.
LEMMA Elsewhere ==
  ASSUME FilesInv, NEW t \in Tokens, NEW u \in Tokens, u # t, Receiving(t), ~Zombie(t),
         Receiving(u), ~Zombie(u)
  PROVE  Destination(u) # Destination(t)
  BY DEF FilesInv, Apart, Destination

\* What is finished is not touched.
FinalKept ==
    UNCHANGED final /\ \A p \in Paths : final[p] # NoFile => data'[final[p]] = data[final[p]]

LEMMA OpenPartFiles ==
  ASSUME IInv, FilesInv, NEW t \in Tokens, OpenPart(t)
  PROVE  FilesInv' /\ FinalKept
<1> USE DEF IInv
<1>1. PICK f \in Files, i \in Inodes, old \in Seq(Blocks) : Opens(t, f, i, old)
  BY OpenPartParts
<1> USE <1>1 DEF Opens
<1>2. UNCHANGED <<source, sState, sEntry, sHash, toB, todo, name, final>>
  BY DEF OpenPart, senderVars
<1>3. PICK d \in Paths : d = Destination(t) /\ d[1] = f
  BY DEF Destination
<1>4. /\ rState'[t] = "waiting" /\ inode'[t] = i /\ rHash'[t] = old
      /\ \A u \in Tokens : u # t => UNCHANGED <<rState[u], inode[u], rHash[u]>>
      /\ data'[i] = old /\ \A j \in Inodes : j # i => data'[j] = data[j]
      /\ part'[d] = i /\ \A p \in Paths : p # d => part'[p] = part[p]
      /\ i # NoFile
  BY <1>3, Given DEF TypeOK, SessionTypeOK, DiskTypeOK
<1>5. f \in Future(t) /\ Receiving(t) /\ ~Zombie(t)
  <2>1. f \in Range(todo[t])
    BY DataParts, TailParts DEF Current
  <2> QED
    BY <2>1 DEF Future, Left, Receiving, Zombie
<1>6. /\ i[2] = f
      /\ \A p \in Paths : final[p] # i /\ (p # d => part[p] # i)
  <2>1. CASE part[d] = NoFile
    <3>1. i = <<t, f>> /\ i[1] = t /\ i[2] = f /\ i # NoFile
      BY <1>3, <1>4, <2>1
    <3> QED
      BY <1>5, <3>1 DEF FilesInv, Disk
  <2>2. CASE part[d] # NoFile
    <3>1. i = part[d]
      BY <1>3, <2>2
    <3> QED
      BY <1>3, <2>2, <3>1 DEF FilesInv, Disk
  <2> QED
    BY <2>1, <2>2
<1>7. \A k \in 1 .. Len(old) : old[k] <= source[f]
  BY <1>6, EmptySeq DEF FilesInv, Disk
<1>8. \A u \in Tokens : /\ Current(u)' = Current(u) /\ Live(u)' = Live(u)
                        /\ Receiving(u)' = Receiving(u) /\ (Zombie(u) => Zombie(u)')
                        /\ Destination(u)' = Destination(u)
                        /\ Future(u)' \subseteq Future(u)
                        /\ u # t => Zombie(u)' = Zombie(u)
  BY <1>2, <1>4 DEF Current, Live, Receiving, Zombie, Destination, Future, Left
<1>9. f \notin Future(t)'
  BY <1>2, <1>4 DEF Future, Current
<1>10. Apart'
  BY <1>8 DEF Apart, FilesInv
<1>11. Disk'
  <2>1. ASSUME NEW p \in Paths, NEW q \in Paths
        PROVE  /\ part'[p] # NoFile => (part'[p] = part'[q] => p = q) /\ part'[p] # final'[q]
               /\ final'[p] # NoFile /\ final'[p] = final'[q] => p = q
    BY <1>2, <1>4, <1>6 DEF FilesInv, Disk
  <2>2. ASSUME NEW p \in Paths, NEW j \in {part'[p], final'[p]} \ {NoFile}
        PROVE  j[2] = p[1] /\ j[2] \notin Future(j[1])'
    <3>1. CASE j \in {part[p], final[p]}
      <4>1. j[1] \in Tokens
        BY <2>2, <3>1 DEF TypeOK, DiskTypeOK, Inodes
      <4>2. PICK u \in Tokens : u = j[1]
        BY <4>1
      <4>3. j[2] = p[1] /\ j[2] \notin Future(u)
        BY <2>2, <3>1, <4>2 DEF FilesInv, Disk
      <4>4. j[2] \notin Future(u)'
        BY <1>8, <4>3
      <4> QED
        BY <4>2, <4>3, <4>4
    <3>2. CASE j \notin {part[p], final[p]}
      <4>1. p = d /\ j = i /\ part[d] # i
        BY <1>2, <1>4, <2>2, <3>2
      <4>2. part[d] = NoFile /\ i = <<t, f>>
        BY <1>3, <4>1
      <4>3. j[1] = t /\ j[2] = f
        BY <4>1, <4>2
      <4> QED
        BY <1>3, <1>9, <4>1, <4>3
    <3> QED
      BY <3>1, <3>2
  <2>3. ASSUME NEW j \in Inodes, NEW k \in 1 .. Len(data'[j]) PROVE data'[j][k] <= source'[j[2]]
    <3>1. CASE j = i
      BY <1>2, <1>4, <1>6, <1>7, <2>3, <3>1
    <3>2. CASE j # i
      BY <1>2, <1>4, <2>3, <3>2 DEF FilesInv, Disk
    <3> QED
      BY <3>1, <3>2
  <2> QED
    BY <2>1, <2>2, <2>3 DEF Disk
<1>12. FinalKept /\ WholeFiles'
  <2>1. ASSUME NEW p \in Paths, final[p] # NoFile PROVE data'[final[p]] = data[final[p]]
    <3>1. final[p] \in Inodes /\ final[p] # i
      BY <1>6, <2>1 DEF TypeOK, DiskTypeOK
    <3> QED
      BY <1>4, <3>1
  <2> QED
    BY <1>2, <2>1 DEF FinalKept, WholeFiles, FilesInv, WholeOf
<1>13. ASSUME NEW u \in Tokens, u # t PROVE Contents(u)'
  <2>1. Quiet(u)
    BY <1>2, <1>4, <1>13 DEF Quiet
  <2> QED
    BY <1>2, <2>1, ContentsKept DEF FilesInv
<1>14. Contents(t)'
  <2>1. Contents(t) /\ Current(t)' = f
    BY <1>8 DEF FilesInv
  <2>2. \A m \in Range(toB[t]) : m.kind = "done" => m.file # f
    BY <1>5 DEF SessionOK, Stages, DoneFiles
  <2>3. \A m \in Range(toB[t]) : m.kind = "done" =>
          \E v \in 1 .. source[m.file] :
            /\ m.hash = Version(m.file, v)
            /\ \A c \in Range(toB[t]) : c.kind = "chunk" /\ c.file = m.file => c.block <= v
    BY <2>1 DEF Contents
  <2> QED
    BY <1>2, <1>4, <1>7, <2>1, <2>2, <2>3 DEF Contents
<1>15. Place(t)'
  <2>1. final[d] = NoFile
    BY <1>3, <1>5 DEF FilesInv, Place
  <2> QED
    BY <1>2, <1>3, <1>4, <1>8, <2>1 DEF Place
<1>16. ASSUME NEW u \in Tokens, u # t PROVE Place(u)'
  <2>1. Place(u) /\ Destination(u)' = Destination(u)
    BY <1>8 DEF FilesInv
  <2>2. ASSUME rState[u] = "waiting", Live(u)
        PROVE  part'[Destination(u)] = inode[u] /\ data'[inode[u]] = rHash[u]
    <3>1. Receiving(u) /\ ~Zombie(u)
      BY <2>2 DEF Receiving, Zombie
    <3>2. Destination(u) # d /\ Destination(u) \in Paths
      BY <1>3, <1>5, <1>16, <3>1, Elsewhere, DataParts
    <3>3. part[Destination(u)] = inode[u] /\ data[inode[u]] = rHash[u] /\ inode[u] \in Inodes
      BY <2>1, <2>2 DEF Place, TypeOK, SessionTypeOK
    <3> QED
      BY <1>4, <1>6, <3>2, <3>3
  <2> QED
    BY <1>2, <1>4, <1>8, <1>16, <2>1, <2>2 DEF Place
<1> QED
  BY <1>10, <1>11, <1>12, <1>13, <1>14, <1>15, <1>16 DEF FilesInv

LEMMA ReceiveChunkFiles ==
  ASSUME IInv, FilesInv, NEW t \in Tokens, ReceiveChunk(t)
  PROVE  FilesInv' /\ FinalKept
<1> USE DEF IInv
<1>1. /\ rState[t] = "waiting" /\ toB[t] # <<>> /\ Head(toB[t]).kind = "chunk"
      /\ toB' = [toB EXCEPT ![t] = Tail(@)]
      /\ UNCHANGED <<source, sState, sEntry, sHash, rState, todo, name, inode, part, final>>
  BY DEF ReceiveChunk, Received, Consume, senderVars
<1>2. CASE UNCHANGED <<rHash, data>>
  BY <1>1, <1>2, IgnoredFiles DEF FinalKept
<1>3. CASE Head(toB[t]).file = Current(t) /\ ~UNCHANGED <<rHash, data>>
  <2>1. PICK c \in Messages : c = Head(toB[t]) /\ c \in Range(toB[t])
    BY <1>1, ReadByReceiver
  <2>2. PICK f \in Files : f = Current(t) /\ f = c.file
    BY <1>1, <1>3, <2>1, MessageParts
  <2>3. PICK b \in Blocks : b = c.block
    BY <1>1, <2>1, MessageParts
  <2>4. PICK i \in Inodes : i = inode[t]
    BY DEF TypeOK, SessionTypeOK
  <2>5. Receiving(t) /\ ~Zombie(t) /\ Live(t)
    BY <1>1 DEF Receiving, Zombie, Live
  <2>6. PICK d \in Paths : d = Destination(t) /\ d[1] = f
    BY <2>2, <2>5, DataParts DEF Destination
  <2>7. /\ part[d] = i /\ data[i] = rHash[t] /\ rHash[t] \in Seq(Blocks) /\ i # NoFile
        /\ Contents(t)
    BY <1>1, <2>4, <2>5, <2>6, DataParts, Given DEF FilesInv, Place
  <2>8. i[2] = f
    BY <2>6, <2>7 DEF FilesInv, Disk
  <2> DEFINE new == Append(rHash[t], b)
  <2>9. /\ rHash' = [rHash EXCEPT ![t] = Append(rHash[t], b)]
        /\ data' = [data EXCEPT ![i] = Written(t, data[i], b)]
    BY <1>3, <2>1, <2>3, <2>4 DEF ReceiveChunk, TypeOK, SessionTypeOK, DiskTypeOK
  <2>10. Written(t, data[i], b) = new
    BY <2>7, WrittenParts
  <2>11. /\ rHash'[t] = new /\ \A u \in Tokens : u # t => rHash'[u] = rHash[u]
         /\ data'[i] = new /\ \A j \in Inodes : j # i => data'[j] = data[j]
    BY <2>9, <2>10 DEF TypeOK, SessionTypeOK, DiskTypeOK
  <2>12. \A p \in Paths : final[p] # i /\ (p # d => part[p] # i)
    BY <2>7 DEF FilesInv, Disk
  <2>13. b <= source[f] /\ \A k \in 1 .. Len(new) : new[k] = b \/ \E l \in 1 .. Len(rHash[t]) : new[k] = rHash[t][l]
    <3>1. b <= source[f]
      BY <1>1, <2>1, <2>2, <2>3, <2>7 DEF Contents
    <3>2. \A k \in 1 .. Len(rHash[t]) + 1 : k \in 1 .. Len(rHash[t]) \/ k = Len(rHash[t]) + 1
      BY <2>7, LenProperties
    <3> QED
      BY <2>7, <3>1, <3>2, AppendParts
  <2>14. \A k \in 1 .. Len(new) : new[k] <= source[f]
    BY <1>1, <2>2, <2>7, <2>13 DEF Contents
  <2>15. /\ Range(toB'[t]) \subseteq Range(toB[t]) /\ \A u \in Tokens : u # t => toB'[u] = toB[u]
    BY <1>1, ReadByReceiver
  <2> HIDE DEF new
  <2>16. \A u \in Tokens : /\ Current(u)' = Current(u) /\ (Live(u)' => Live(u))
                           /\ Receiving(u)' = Receiving(u) /\ (Zombie(u) => Zombie(u)')
                           /\ Destination(u)' = Destination(u)
                           /\ Future(u)' = Future(u)
                           /\ u # t => Zombie(u)' = Zombie(u) /\ Live(u)' = Live(u)
    BY <1>1, <2>5, <2>15 DEF Current, Live, Receiving, Zombie, Destination, Future, Left
  <2>17. Apart'
    BY <2>16 DEF Apart, FilesInv
  <2>18. Disk'
    <3>1. ASSUME NEW p \in Paths, NEW j \in {part[p], final[p]} \ {NoFile}
          PROVE  j[2] = p[1] /\ j[2] \notin Future(j[1])'
      <4>1. j[1] \in Tokens
        BY <3>1 DEF TypeOK, DiskTypeOK, Inodes
      <4>2. PICK u \in Tokens : u = j[1]
        BY <4>1
      <4> QED
        BY <2>16, <3>1, <4>2 DEF FilesInv, Disk
    <3>2. ASSUME NEW j \in Inodes, NEW k \in 1 .. Len(data'[j]) PROVE data'[j][k] <= source[j[2]]
      <4>1. CASE j = i
        BY <2>8, <2>11, <2>14, <3>2, <4>1
      <4>2. CASE j # i
        BY <2>11, <3>2, <4>2 DEF FilesInv, Disk
      <4> QED
        BY <4>1, <4>2
    <3> QED
      BY <1>1, <3>1, <3>2 DEF FilesInv, Disk
  <2>19. FinalKept /\ WholeFiles'
    <3>1. ASSUME NEW p \in Paths, final[p] # NoFile PROVE data'[final[p]] = data[final[p]]
      <4>1. final[p] \in Inodes /\ final[p] # i
        BY <2>12, <3>1 DEF TypeOK, DiskTypeOK
      <4> QED
        BY <2>11, <4>1
    <3> QED
      BY <1>1, <3>1 DEF FinalKept, WholeFiles, FilesInv, WholeOf
  <2>20. ASSUME NEW u \in Tokens, u # t PROVE Contents(u)'
    <3>1. Quiet(u)
      BY <1>1, <2>11, <2>15, <2>20 DEF Quiet
    <3> QED
      BY <1>1, <3>1, ContentsKept DEF FilesInv
  <2>21. Contents(t)'
    <3>1. \A m \in Range(toB'[t]) : m.kind = "chunk" => m.block <= source[m.file]
      BY <2>7, <2>15 DEF Contents
    <3>2. ASSUME NEW m \in Range(toB'[t]), m.kind = "done"
          PROVE  \E v \in 1 .. source[m.file] :
                   /\ m.hash = Version(m.file, v)
                   /\ \A x \in Range(toB'[t]) : x.kind = "chunk" /\ x.file = m.file => x.block <= v
                   /\ rState[t] = "waiting" /\ m.file = f => \A k \in 1 .. Len(new) : new[k] <= v
      <4>1. PICK v \in 1 .. source[m.file] :
               /\ m.hash = Version(m.file, v)
               /\ \A x \in Range(toB[t]) : x.kind = "chunk" /\ x.file = m.file => x.block <= v
               /\ rState[t] = "waiting" /\ m.file = Current(t) =>
                    \A k \in 1 .. Len(rHash[t]) : rHash[t][k] <= v
        BY <2>7, <2>15, <3>2 DEF Contents
      <4>2. \A x \in Range(toB'[t]) : x.kind = "chunk" /\ x.file = m.file => x.block <= v
        BY <2>15, <4>1
      <4>3. m.file = f => b <= v
        BY <1>1, <2>1, <2>2, <2>3, <4>1
      <4>4. m.file = f => \A k \in 1 .. Len(new) : new[k] <= v
        BY <1>1, <2>2, <2>13, <4>1, <4>3
      <4> QED
        BY <4>1, <4>2, <4>4
    <3>3. Current(t)' = f
      BY <2>2, <2>16
    <3> QED
      BY <1>1, <2>7, <2>11, <2>14, <3>1, <3>2, <3>3 DEF Contents
  <2>22. Place(t)'
    BY <1>1, <2>4, <2>5, <2>6, <2>7, <2>11, <2>16 DEF Place, FilesInv
  <2>23. ASSUME NEW u \in Tokens, u # t PROVE Place(u)'
    <3>1. Place(u)
      BY DEF FilesInv
    <3>2. ASSUME rState[u] = "waiting", Live(u) PROVE data'[inode[u]] = rHash[u]
      <4>1. Receiving(u) /\ ~Zombie(u)
        BY <3>2 DEF Receiving, Zombie
      <4>2. Destination(u) # d /\ Destination(u) \in Paths
        BY <2>5, <2>6, <2>23, <4>1, Elsewhere, DataParts
      <4>3. part[Destination(u)] = inode[u] /\ data[inode[u]] = rHash[u] /\ inode[u] \in Inodes
        BY <3>1, <3>2 DEF Place, TypeOK, SessionTypeOK
      <4> QED
        BY <2>11, <2>12, <4>2, <4>3
    <3> QED
      BY <1>1, <2>11, <2>16, <2>23, <3>1, <3>2 DEF Place
  <2> QED
    BY <2>17, <2>18, <2>19, <2>20, <2>21, <2>22, <2>23 DEF FilesInv
<1>4. Head(toB[t]).file # Current(t) => UNCHANGED <<rHash, data>>
  BY DEF ReceiveChunk
<1> QED
  BY <1>2, <1>3, <1>4

\* The end of the current file finds what it ends.
LEMMA FinishParts ==
  ASSUME IInv, FilesInv, NEW t \in Tokens, rState[t] = "waiting", toB[t] # <<>>,
         Head(toB[t]).kind = "done", Head(toB[t]).file = Current(t)
  PROVE  \E f \in Files, d \in Paths, i \in Inodes, v \in 1 .. source[Current(t)] :
           /\ f = Current(t) /\ d = Destination(t) /\ d[1] = f /\ i = inode[t]
           /\ part[d] = i /\ final[d] = NoFile /\ data[i] = rHash[t]
           /\ Head(toB[t]).hash = Version(f, v) /\ \A k \in 1 .. Len(rHash[t]) : rHash[t][k] <= v
<1>1. Receiving(t) /\ ~Zombie(t) /\ Live(t)
  BY DEF Receiving, Zombie, Live
<1>2. /\ Current(t) \in Files /\ Destination(t) \in Paths /\ Destination(t)[1] = Current(t)
      /\ inode[t] \in Inodes
  BY <1>1, DataParts DEF IInv, Destination, TypeOK, SessionTypeOK
<1>3. /\ part[Destination(t)] = inode[t] /\ data[inode[t]] = rHash[t]
      /\ final[Destination(t)] = NoFile
  BY <1>1 DEF FilesInv, Place
<1>4. Head(toB[t]) \in Range(toB[t])
  BY DataParts, TailParts DEF IInv
<1>5. PICK v \in 1 .. source[Current(t)] :
        /\ Head(toB[t]).hash = Version(Current(t), v)
        /\ \A k \in 1 .. Len(rHash[t]) : rHash[t][k] <= v
  BY <1>4 DEF FilesInv, Contents
<1> QED
  BY <1>2, <1>3, <1>5

\* A file gets its final name: one that was free, and it is a version of its source.
Finished(d, i) ==
    /\ final[d] = NoFile /\ i # NoFile /\ data[i] \in WholeOf(d[1])
    /\ UNCHANGED data
    /\ final' = [final EXCEPT ![d] = i]

LEMMA ReceiveDoneFiles ==
  ASSUME IInv, FilesInv, NEW t \in Tokens, ReceiveDone(t)
  PROVE  FilesInv' /\ (FinalKept \/ \E d \in Paths, i \in Inodes : Finished(d, i))
<1> USE DEF IInv
<1>1. /\ rState[t] = "waiting" /\ Live(t) /\ toB[t] # <<>> /\ Head(toB[t]).kind = "done"
      /\ toB' = [toB EXCEPT ![t] = Tail(@)]
      /\ UNCHANGED <<source, sState, sEntry, sHash, data>>
      /\ \/ UNCHANGED <<rState, todo, name, inode, appending, rHash, part, final>>
         \/ /\ Head(toB[t]).file = Current(t) /\ Head(toB[t]).hash = rHash[t]
            /\ final' = [final EXCEPT ![Destination(t)] = part[Destination(t)]]
            /\ part' = [part EXCEPT ![Destination(t)] = NoFile]
            /\ rState' = [rState EXCEPT ![t] = "setup"]
            /\ todo' = [todo EXCEPT ![t] = Tail(@)]
            /\ EntryEnds({t})
  BY ReceiveDoneParts
<1>2. CASE UNCHANGED <<rState, todo, name, inode, appending, rHash, part, final>>
  BY <1>1, <1>2, IgnoredFiles DEF FinalKept
<1>3. CASE /\ Head(toB[t]).file = Current(t) /\ Head(toB[t]).hash = rHash[t]
           /\ final' = [final EXCEPT ![Destination(t)] = part[Destination(t)]]
           /\ part' = [part EXCEPT ![Destination(t)] = NoFile]
           /\ rState' = [rState EXCEPT ![t] = "setup"]
           /\ todo' = [todo EXCEPT ![t] = Tail(@)]
           /\ EntryEnds({t})
  <2>1. PICK f \in Files, d \in Paths, i \in Inodes, v \in 1 .. source[Current(t)] :
           /\ f = Current(t) /\ d = Destination(t) /\ d[1] = f /\ i = inode[t]
           /\ part[d] = i /\ final[d] = NoFile /\ data[i] = rHash[t]
           /\ Head(toB[t]).hash = Version(f, v) /\ \A k \in 1 .. Len(rHash[t]) : rHash[t][k] <= v
    BY <1>1, <1>3, FinishParts
  <2>2. i # NoFile /\ Receiving(t) /\ ~Zombie(t) /\ todo[t] # <<>> /\ todo[t] \in Seq(Entries)
    BY <1>1, Given, DataParts DEF Receiving, Zombie
  <2>3. data[i] \in WholeOf(f)
    <3>1. source[f] \in 1 .. MaxVersion /\ data[i] = Version(f, v)
      BY <1>3, <2>1 DEF TypeOK, SenderTypeOK
    <3>2. v \in 1 .. MaxVersion
      BY <2>1, <3>1, Given
    <3> QED
      BY <3>1, <3>2 DEF WholeOf, Version
  <2>4. Finished(d, i)
    BY <1>1, <1>3, <2>1, <2>2, <2>3 DEF Finished
  <2>5. /\ final'[d] = i /\ \A p \in Paths : p # d => final'[p] = final[p]
        /\ part'[d] = NoFile /\ \A p \in Paths : p # d => part'[p] = part[p]
        /\ rState'[t] = "setup" /\ todo'[t] = Tail(todo[t])
        /\ \A u \in Tokens : u # t => UNCHANGED <<rState[u], todo[u]>>
    BY <1>3, <2>1 DEF TypeOK, SessionTypeOK, DiskTypeOK
  <2>6. \A u \in Tokens : u # t => UNCHANGED <<name[u], inode[u], rHash[u]>>
    BY <1>3 DEF EntryEnds
  <2>7. /\ Range(toB'[t]) \subseteq Range(toB[t]) /\ \A u \in Tokens : u # t => toB'[u] = toB[u]
    BY <1>1, ReadByReceiver
  <2>8. Future(t)' \subseteq Future(t) /\ f \notin Future(t)' /\ ~Receiving(t)'
    <3>1. Range(Tail(todo[t])) = Range(todo[t]) \ {Head(todo[t])}
      BY <2>2, InjectiveTail DEF SessionOK, Todo
    <3>2. Future(t) = Range(todo[t]) \ {f} /\ Future(t)' = Range(Tail(todo[t]))
      BY <1>1, <2>1, <2>5 DEF Future, Left
    <3> QED
      BY <2>1, <2>5, <3>1, <3>2 DEF Current, Receiving
  <2>9. \A u \in Tokens : u # t =>
          /\ Current(u)' = Current(u) /\ Live(u)' = Live(u) /\ Receiving(u)' = Receiving(u)
          /\ Zombie(u)' = Zombie(u) /\ Destination(u)' = Destination(u) /\ Future(u)' = Future(u)
    BY <1>1, <2>5, <2>6, <2>7 DEF Current, Live, Receiving, Zombie, Destination, Future, Left
  <2>10. Apart'
    BY <2>8, <2>9 DEF Apart, FilesInv
  <2>11. Disk'
    <3>1. \A p, q \in Paths :
            /\ part[p] # NoFile => (part[p] = part[q] => p = q) /\ part[p] # final[q]
            /\ final[p] # NoFile /\ final[p] = final[q] => p = q
      BY DEF FilesInv, Disk
    <3>2. ASSUME NEW p \in Paths, NEW q \in Paths
          PROVE  /\ part'[p] # NoFile => (part'[p] = part'[q] => p = q) /\ part'[p] # final'[q]
                 /\ final'[p] # NoFile /\ final'[p] = final'[q] => p = q
      <4>1. part'[p] # NoFile => p # d /\ part'[p] = part[p]
        BY <2>5
      <4>2. part'[p] # NoFile /\ part'[p] = part'[q] => p = q
        BY <2>5, <3>1, <4>1
      <4>3. part'[p] # NoFile => part'[p] # final'[q]
        BY <2>1, <2>2, <2>5, <3>1, <4>1
      <4>4. final'[p] # NoFile /\ final'[p] = final'[q] => p = q
        BY <2>1, <2>2, <2>5, <3>1
      <4> QED
        BY <4>2, <4>3, <4>4
    <3>3. ASSUME NEW p \in Paths, NEW j \in {part'[p], final'[p]} \ {NoFile}
          PROVE  j[2] = p[1] /\ j[2] \notin Future(j[1])'
      <4>1. j \in {part[p], final[p]}
        BY <2>1, <2>5, <3>3
      <4>2. j[1] \in Tokens
        BY <3>3, <4>1 DEF TypeOK, DiskTypeOK, Inodes
      <4>3. PICK u \in Tokens : u = j[1]
        BY <4>2
      <4>4. j[2] = p[1] /\ j[2] \notin Future(u)
        BY <3>3, <4>1, <4>3 DEF FilesInv, Disk
      <4>5. j[2] \notin Future(u)'
        BY <2>8, <2>9, <4>4
      <4> QED
        BY <4>3, <4>4, <4>5
    <3>4. \A j \in Inodes : \A k \in 1 .. Len(data'[j]) : data'[j][k] <= source'[j[2]]
      BY <1>1 DEF FilesInv, Disk
    <3> QED
      BY <3>2, <3>3, <3>4 DEF Disk
  <2>12. WholeFiles'
    <3>1. ASSUME NEW p \in Paths, final'[p] # NoFile PROVE data'[final'[p]] \in WholeOf(p[1])
      <4>1. CASE p = d
        <5>1. final'[p] = i /\ data' = data /\ p[1] = f
          BY <1>1, <2>1, <2>5, <4>1
        <5> QED
          BY <2>3, <5>1
      <4>2. CASE p # d
        BY <1>1, <2>5, <3>1, <4>2 DEF WholeFiles, FilesInv
      <4> QED
        BY <4>1, <4>2
    <3> QED
      BY <3>1 DEF WholeFiles, WholeOf
  <2>13. ASSUME NEW u \in Tokens PROVE Contents(u)'
    <3>1. Quiet(u)
      BY <1>1, <2>5, <2>6, <2>7 DEF Quiet
    <3> QED
      BY <1>1, <3>1, ContentsKept DEF FilesInv
  <2>14. ASSUME NEW u \in Tokens PROVE Place(u)'
    <3>1. CASE u = t
      BY <2>8, <3>1 DEF Place, Receiving
    <3>2. CASE u # t /\ Receiving(u) /\ ~Zombie(u)
      <4>1. Destination(u) # d /\ Destination(u) \in Paths
        BY <2>1, <2>2, <3>2, Elsewhere, DataParts
      <4> QED
        BY <1>1, <2>5, <2>6, <2>9, <3>2, <4>1 DEF Place, FilesInv
    <3>3. CASE u # t /\ ~(Receiving(u) /\ ~Zombie(u))
      BY <1>1, <2>5, <2>6, <2>9, <3>3 DEF Place, FilesInv, Receiving, Zombie
    <3> QED
      BY <3>1, <3>2, <3>3
  <2> QED
    BY <2>4, <2>10, <2>11, <2>12, <2>13, <2>14 DEF FilesInv
<1> QED
  BY <1>1, <1>2, <1>3

-----------------------------------------------------------------------------
LEMMA FilesInit == Init => FilesInv
<1> SUFFICES ASSUME Init PROVE FilesInv
  OBVIOUS
<1> USE DEF Init
<1>1. Apart /\ WholeFiles
  BY DEF Apart, Receiving, WholeFiles
<1>2. Disk
  <2>1. \A i \in Inodes : Len(data[i]) = 0
    BY EmptySeq
  <2> QED
    BY <2>1 DEF Disk
<1>3. \A t \in Tokens : Contents(t) /\ Place(t)
  BY NothingIn DEF Contents, Place, Receiving
<1> QED
  BY <1>1, <1>2, <1>3 DEF FilesInv

\* The steps that are not of a receiver that opens or writes a file.
LEMMA FilesStep ==
  ASSUME IInv, FilesInv, Calm, [Next]_vars,
         \A t \in Tokens : ~OpenPart(t) /\ ~ReceiveChunk(t) /\ ~ReceiveDone(t)
  PROVE  FilesInv' /\ FinalKept
<1>1. ASSUME NEW t \in Tokens,
             \/ Offer(t) \/ CancelSend(t) \/ HandleRequest(t) \/ StreamFails(t) \/ SenderCancelled(t)
             \/ SenderAborted(t) \/ SenderTimeout(t) \/ StreamBlock(t) \/ StreamDone(t)
      PROVE  FilesInv' /\ UNCHANGED <<data, final>>
  <2>1. FilesInv'
    BY <1>1, SenderFiles, StreamBlockFiles, StreamDoneFiles
  <2>2. UNCHANGED <<data, final>>
    BY <1>1 DEF Offer, CancelSend, HandleRequest, StreamFails, SenderCancelled, SenderAborted,
                SenderTimeout, StreamBlock, StreamDone, diskVars
  <2> QED
    BY <2>1, <2>2
<1>2. ASSUME NEW t \in Tokens,
             \/ ReceiveOffer(t) \/ Accept(t) \/ CancelReceive(t) \/ ReceiveAbort(t)
             \/ ReceiverTimeout(t) \/ CreateDir(t) \/ OpenFails(t) \/ ChunkFails(t) \/ DoneFails(t)
             \/ Complete(t) \/ ChooseName(t)
      PROVE  FilesInv' /\ UNCHANGED <<data, final>>
  <2>1. FilesInv'
    BY <1>2, ReceiverFiles, ChooseNameFiles
  <2>2. UNCHANGED <<data, final>>
    BY <1>2 DEF ReceiveOffer, Accept, CancelReceive, ReceiveAbort, ReceiverTimeout, CreateDir,
                OpenFails, ChunkFails, DoneFails, Complete, ChooseName, diskVars
  <2> QED
    BY <2>1, <2>2
<1>3. ASSUME NEW t \in Tokens, Break(t) \/ Drop(t)
      PROVE  FilesInv' /\ UNCHANGED <<data, final>>
  <2>1. UNCHANGED <<data, final>>
    BY <1>3 DEF Break, Drop, diskVars
  <2> QED
    BY <1>3, <2>1, NetworkFiles
<1>4. ASSUME NEW f \in Files, Edit(f) PROVE FilesInv' /\ UNCHANGED <<data, final>>
  <2>1. UNCHANGED <<data, final>>
    BY <1>4 DEF Edit, diskVars
  <2> QED
    BY <1>4, <2>1, EditFiles
<1>5. ASSUME CrashSender \/ CrashReceiver PROVE FilesInv' /\ UNCHANGED <<data, final>>
  <2>1. UNCHANGED <<data, final>>
    BY <1>5 DEF CrashSender, CrashReceiver, diskVars
  <2> QED
    BY <1>5, <2>1, CrashSenderFiles, CrashReceiverFiles
<1>6. ASSUME UNCHANGED vars PROVE FilesInv' /\ UNCHANGED <<data, final>>
  <2>1. /\ UNCHANGED <<source, sState, sEntry, sHash, toB>>
        /\ UNCHANGED <<rState, todo, name, inode, rHash>> /\ UNCHANGED <<data, part, final>>
    BY <1>6 DEF vars, senderVars, netVars, sessionVars, diskVars
  <2> DEFINE ts == {}
  <2>2. /\ ts \in SUBSET Tokens
        /\ \A u \in Tokens : u \notin ts /\ UNCHANGED <<rState[u], todo[u], name[u], inode[u], rHash[u]>>
        /\ \A u \in Tokens : Range(toB'[u]) \subseteq Range(toB[u]) /\ (toB[u] = <<>> => toB'[u] = <<>>)
    BY <2>1
  <2> HIDE DEF ts
  <2>3. FilesInv'
    BY <2>1, <2>2, ReceiverQuiet
  <2> QED
    BY <2>1, <2>3
<1>7. FilesInv' /\ UNCHANGED <<data, final>>
  BY <1>1, <1>2, <1>3, <1>4, <1>5, <1>6 DEF Next, SenderStep, ReceiverStep
<1> QED
  BY <1>7 DEF FinalKept

LEMMA FilesNext ==
  ASSUME IInv, FilesInv, Calm, [Next]_vars
  PROVE  FilesInv' /\ (FinalKept \/ \E d \in Paths, i \in Inodes : Finished(d, i))
<1>1. CASE \E t \in Tokens : OpenPart(t) \/ ReceiveChunk(t) \/ ReceiveDone(t)
  BY <1>1, OpenPartFiles, ReceiveChunkFiles, ReceiveDoneFiles
<1>2. CASE ~ \E t \in Tokens : OpenPart(t) \/ ReceiveChunk(t) \/ ReceiveDone(t)
  BY <1>2, FilesStep
<1> QED
  BY <1>1, <1>2

\* FilesInv is an invariant: sessions that can still receive write to files of
\* their own, which hold what the session has hashed (receiver_driver).
THEOREM FilesInvariance == Calm => (Spec => [](IInv /\ FilesInv))
<1> SUFFICES ASSUME Calm PROVE Spec => [](IInv /\ FilesInv)
  OBVIOUS
<1>1. Init => IInv /\ FilesInv
  BY InitInv, FilesInit
<1>2. IInv /\ FilesInv /\ [Next]_vars => (IInv /\ FilesInv)'
  BY NextInv, FilesNext
<1> QED
  BY <1>1, <1>2, PTL DEF Spec

\* A file that got its final name is one version of the source, complete and
\* unmixed, in however many attempts, over whatever connections and between
\* whatever changes of the source it was received.
THEOREM FilesAreWhole == Calm => (Spec => []WholeFiles)
<1> SUFFICES ASSUME Calm PROVE Spec => []WholeFiles
  OBVIOUS
<1>1. IInv /\ FilesInv => WholeFiles
  BY DEF FilesInv
<1>2. Spec => [](IInv /\ FilesInv)
  BY FilesInvariance
<1> QED
  BY <1>1, <1>2, PTL

LEMMA CopyStep ==
  ASSUME IInv, FilesInv, Calm, [Next]_vars
  PROVE  [Copy!Arrive]_([p \in Paths |-> IF final[p] = NoFile THEN <<>> ELSE data[final[p]]])
<1> DEFINE copies == [p \in Paths |-> IF final[p] = NoFile THEN <<>> ELSE data[final[p]]]
<1>1. CASE FinalKept
  <2>1. copies' = copies
    BY <1>1 DEF FinalKept
  <2> QED
    BY <2>1
<1>2. CASE \E d \in Paths, i \in Inodes : Finished(d, i)
  <2>1. PICK d \in Paths, i \in Inodes : Finished(d, i)
    BY <1>2
  <2>2. /\ final'[d] = i /\ \A p \in Paths : p # d => final'[p] = final[p]
        /\ final[d] = NoFile /\ i # NoFile /\ data[i] \in WholeOf(d[1]) /\ data' = data
    BY <2>1 DEF Finished, IInv, TypeOK, DiskTypeOK
  <2>3. copies[d] = <<>> /\ copies' = [copies EXCEPT ![d] = data[i]]
    BY <2>2
  <2>4. Copy!Arrive
    BY <2>2, <2>3 DEF Copy!Arrive
  <2> QED
    BY <2>4
<1> QED
  BY <1>1, <1>2, FilesNext

\* The disk is what its user expects: a file appears all at once and complete
\* under a name that was free, and is never touched again.
THEOREM DiskIsFileCopy == Calm => (Spec => ImplementsFileCopy)
<1> SUFFICES ASSUME Calm PROVE Spec => Copy!Spec
  BY DEF ImplementsFileCopy
<1>1. Init => Copy!Init
  BY DEF Init, Copy!Init
<1>2. IInv /\ FilesInv /\ [Next]_vars =>
        [Copy!Arrive]_([p \in Paths |-> IF final[p] = NoFile THEN <<>> ELSE data[final[p]]])
  BY CopyStep
<1>3. Spec => [](IInv /\ FilesInv)
  BY FilesInvariance
<1> QED
  BY <1>1, <1>2, <1>3, PTL DEF Spec, Copy!Spec

LEMMA GoodCopyStep ==
  ASSUME IInv, FilesInv, [Next]_vars, NEW p \in Paths, part[p] # NoFile,
         data[part[p]] = Version(p[1], source[p[1]])
  PROVE  part'[p] = part[p] \/ final'[p] = part[p]
<1> USE DEF IInv
<1>1. ASSUME NEW t \in Tokens, OpenPart(t) PROVE part'[p] = part[p]
  <2>1. PICK f \in Files, i \in Inodes, old \in Seq(Blocks) : Opens(t, f, i, old)
    BY <1>1, OpenPartParts
  <2> QED
    BY <2>1 DEF Opens, TypeOK, DiskTypeOK
<1>2. ASSUME NEW t \in Tokens, ReceiveDone(t) PROVE part'[p] = part[p] \/ final'[p] = part[p]
  <2>1. \/ UNCHANGED part
        \/ /\ part' = [part EXCEPT ![Destination(t)] = NoFile]
           /\ final' = [final EXCEPT ![Destination(t)] = part[Destination(t)]]
    BY <1>2 DEF ReceiveDone
  <2> QED
    BY <2>1 DEF TypeOK, DiskTypeOK
<1>3. ASSUME NEW t \in Tokens, DoneFails(t) PROVE part'[p] = part[p]
  <2>1. CASE UNCHANGED part
    BY <2>1
  <2>2. CASE /\ Head(toB[t]).hash # rHash[t]
             /\ part' = [part EXCEPT ![Destination(t)] = NoFile]
    <3>1. /\ rState[t] = "waiting" /\ toB[t] # <<>> /\ Head(toB[t]).kind = "done"
          /\ Head(toB[t]).file = Current(t)
      BY <1>3 DEF DoneFails, Received
    <3>2. PICK f \in Files, d \in Paths, i \in Inodes, v \in 1 .. source[Current(t)] :
            /\ f = Current(t) /\ d = Destination(t) /\ d[1] = f /\ i = inode[t]
            /\ part[d] = i /\ final[d] = NoFile /\ data[i] = rHash[t]
            /\ Head(toB[t]).hash = Version(f, v) /\ \A k \in 1 .. Len(rHash[t]) : rHash[t][k] <= v
      BY <3>1, FinishParts
    \* what is thrown away is not the source as it is: the hash would agree
    <3>3. p # d
      <4> SUFFICES ASSUME p = d PROVE FALSE
        OBVIOUS
      <4>1. rHash[t] = Version(f, source[f]) /\ v \in 1 .. source[f] /\ v # source[f]
        BY <2>2, <3>2
      <4>2. /\ Size[f] \in Nat /\ Size[f] >= 1 /\ source[f] \in Nat
            /\ rHash[t] \in Seq(Blocks)
        BY Given, BlockParts, DataParts
      <4>3. Len(rHash[t]) = Size[f]
        <5>1. DOMAIN rHash[t] = 1 .. Size[f] /\ DOMAIN rHash[t] = 1 .. Len(rHash[t])
              /\ Len(rHash[t]) \in Nat
          BY <4>1, <4>2, LenProperties DEF Version
        <5> QED
          BY <4>2, <5>1
      <4>4. rHash[t][1] = source[f] /\ rHash[t][1] <= v
        BY <3>2, <4>1, <4>2, <4>3 DEF Version
      <4> QED
        BY <4>1, <4>2, <4>4
    <3> QED
      BY <2>2, <3>2, <3>3 DEF TypeOK, DiskTypeOK
  <2> QED
    BY <1>3, <2>1, <2>2 DEF DoneFails
<1>4. CASE \A t \in Tokens : ~OpenPart(t) /\ ~ReceiveDone(t) /\ ~DoneFails(t)
  <2>1. ASSUME NEW t \in Tokens,
               \/ Offer(t) \/ CancelSend(t) \/ SenderTimeout(t) \/ SenderStep(t) \/ Accept(t)
               \/ CancelReceive(t) \/ ReceiverTimeout(t) \/ Break(t) \/ Drop(t)
        PROVE  UNCHANGED part
    BY <2>1 DEF Offer, CancelSend, HandleRequest, StreamFails, SenderCancelled, SenderAborted,
                SenderTimeout, StreamBlock, StreamDone, SenderStep, Accept, CancelReceive,
                ReceiverTimeout, Break, Drop, diskVars
  <2>2. ASSUME NEW t \in Tokens, ReceiverStep(t) PROVE UNCHANGED part
    BY <1>4, <2>2 DEF ReceiverStep, ReceiveOffer, ReceiveAbort, CreateDir, OpenFails, ChunkFails,
                      Complete, ChooseName, ReceiveChunk, diskVars
  <2>3. ASSUME (\E f \in Files : Edit(f)) \/ CrashSender \/ CrashReceiver \/ UNCHANGED vars
        PROVE  UNCHANGED part
    BY <2>3 DEF Edit, CrashSender, CrashReceiver, vars, diskVars
  <2> QED
    BY <2>1, <2>2, <2>3 DEF Next
<1> QED
  BY <1>1, <1>2, <1>3, <1>4

\* The receiver never throws away a complete copy of the source as it is: what
\* setup_entry and hash_prefix hash again at both ends agrees.
THEOREM GoodCopiesStay == Calm => (Spec => GoodCopyKept)
<1> SUFFICES ASSUME Calm PROVE Spec => GoodCopyKept
  OBVIOUS
<1>1. IInv /\ FilesInv /\ [Next]_vars =>
        [\A p \in Paths :
           part[p] # NoFile /\ data[part[p]] = [k \in 1 .. Size[p[1]] |-> source[p[1]]]
             => part'[p] = part[p] \/ final'[p] = part[p]]_vars
  BY GoodCopyStep DEF Version
<1>2. Spec => [](IInv /\ FilesInv)
  BY FilesInvariance
<1> QED
  BY <1>1, <1>2, PTL DEF Spec, GoodCopyKept

=============================================================================
