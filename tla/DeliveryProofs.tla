--------------------------- MODULE DeliveryProofs ---------------------------
(***************************************************************************)
(* Proofs about Delivery for every set of messages, every bound and every  *)
(* set of faults.  TypeOK is inductive as it stands; the other invariants  *)
(* are proved relative to it.                                              *)
(***************************************************************************)
EXTENDS Delivery, FiniteSetTheorems, SequenceTheorems, TLAPS

-----------------------------------------------------------------------------
(* Queues: what Append, Head and Tail do to the set of elements. *)

LEMMA AppendFacts ==
  ASSUME NEW S, NEW s \in Seq(S), NEW e \in S
  PROVE  /\ Append(s, e) \in Seq(S)
         /\ Range(Append(s, e)) = Range(s) \cup {e}
<1>1. /\ Append(s, e) \in Seq(S)
      /\ DOMAIN Append(s, e) = 1 .. Len(s) + 1 /\ DOMAIN s = 1 .. Len(s)
      /\ \A i \in 1 .. Len(s) : Append(s, e)[i] = s[i]
      /\ Append(s, e)[Len(s) + 1] = e
  OBVIOUS
<1>2. Len(s) \in Nat /\ 1 .. Len(s) + 1 = (1 .. Len(s)) \cup {Len(s) + 1}
  OBVIOUS
<1> QED
  BY <1>1, <1>2 DEF Range

LEMMA TailFacts ==
  ASSUME NEW S, NEW s \in Seq(S), s # <<>>
  PROVE  /\ Head(s) \in S /\ Head(s) \in Range(s)
         /\ Tail(s) \in Seq(S)
         /\ Range(Tail(s)) \subseteq Range(s)
<1>1. /\ Len(s) \in Nat \ {0} /\ DOMAIN s = 1 .. Len(s) /\ Head(s) = s[1]
      /\ Tail(s) \in Seq(S) /\ DOMAIN Tail(s) = 1 .. Len(s) - 1
      /\ \A i \in 1 .. Len(s) - 1 : Tail(s)[i] = s[i + 1]
  BY EmptySeq, HeadTailProperties, LenProperties
<1>2. 1 \in 1 .. Len(s) /\ \A i \in 1 .. Len(s) - 1 : i + 1 \in 1 .. Len(s)
  BY <1>1
<1> QED
  BY <1>1, <1>2 DEF Range

LEMMA EmptyRange == Range(<<>>) = {}
  BY DEF Range

-----------------------------------------------------------------------------
(* Types. *)

LEMMA TypeInit == Init => TypeOK
<1> SUFFICES ASSUME Init PROVE TypeOK
  OBVIOUS
<1> USE KindsAssumption, BoundsAssumption DEF Init
<1>1. CallTypeOK
  BY DEF CallTypeOK, Outcomes
<1>2. QueueTypeOK
  BY DEF QueueTypeOK
<1>3. RowTypeOK
  BY DEF RowTypeOK
<1>4. NetTypeOK
  BY EmptySeq DEF NetTypeOK
<1>5. ReceiverTypeOK
  BY DEF ReceiverTypeOK
<1> QED
  BY <1>1, <1>2, <1>3, <1>4, <1>5 DEF TypeOK

LEMMA CallTypeNext == TypeOK /\ [Next]_vars => CallTypeOK'
<1> SUFFICES ASSUME TypeOK, [Next]_vars PROVE CallTypeOK'
  OBVIOUS
<1> USE BoundsAssumption DEF TypeOK, CallTypeOK, Outcomes
<1>1. ASSUME NEW m \in Msgs, MarkRecall(m) \/ StartSend(m) \/ FinishSend(m) \/ FailSend(m)
      PROVE  CallTypeOK'
  BY <1>1 DEF MarkRecall, StartSend, FinishSend, FailSend
<1>2. CASE CrashSender
  BY <1>2 DEF CrashSender
<1>3. CASE Tick
  BY <1>3 DEF Tick
<1>4. CASE UNCHANGED callVars
  BY <1>4 DEF callVars
<1> QED
  BY <1>1, <1>2, <1>3, <1>4
  DEF Next, vars, senderVars, FlushSend, FlushStart, FlushRecord, FlushStop, ReadAck,
      HandleAck, PeerSeen, PeerLost, Break, Receive, Flood, HandleMessage,
      OpenConversation, MarkRead, StopReceiver, StartReceiver

LEMMA EnqueueType ==
  ASSUME TypeOK, NEW m \in Msgs, Enqueue(m)
  PROVE  /\ queuedMs' \in [Msgs -> Nat]
         /\ waited' \in [Msgs -> 0 .. MaxAge + 1]
         /\ Queue' = Queue \cup {m}
<1>1. PICK n \in 1 .. Cardinality(Msgs) : queuedMs' = [queuedMs EXCEPT ![m] = n]
  BY DEF Enqueue
<1>2. n \in Nat /\ n > 0
  BY KindsAssumption, FS_CardinalityType
<1> QED
  BY <1>1, <1>2, BoundsAssumption DEF Enqueue, TypeOK, QueueTypeOK, Queue

LEMMA QueueTypeNext == TypeOK /\ [Next]_vars => QueueTypeOK'
<1> SUFFICES ASSUME TypeOK, [Next]_vars PROVE QueueTypeOK'
  OBVIOUS
<1> USE BoundsAssumption DEF TypeOK, QueueTypeOK, Queue
<1>1. ASSUME NEW m \in Msgs, FinishSend(m) PROVE QueueTypeOK'
  <2>1. CASE Enqueue(m)
    BY <1>1, <2>1, EnqueueType DEF FinishSend
  <2>2. CASE NotEnqueued
    BY <1>1, <2>2 DEF FinishSend, NotEnqueued
  <2> QED
    BY <1>1, <2>1, <2>2 DEF FinishSend
<1>2. ASSUME NEW m \in Msgs, FlushSend(m) PROVE QueueTypeOK'
  BY <1>2 DEF FlushSend
<1>3. CASE FlushStart
  BY <1>3 DEF FlushStart, Expired, PumpIdle
<1>4. CASE FlushRecord \/ FlushStop
  BY <1>4 DEF FlushRecord, FlushStop
<1>5. CASE HandleAck
  BY <1>5 DEF HandleAck, PumpIdle
<1>6. CASE CrashSender
  BY <1>6 DEF CrashSender
<1>7. CASE Tick
  BY <1>7 DEF Tick
<1>8. CASE UNCHANGED queueVars
  BY <1>8 DEF queueVars
<1> QED
  BY <1>1, <1>2, <1>3, <1>4, <1>5, <1>6, <1>7, <1>8
  DEF Next, vars, senderVars, MarkRecall, StartSend, FailSend, ReadAck,
      PeerSeen, PeerLost, Break, Receive, Flood, HandleMessage,
      OpenConversation, MarkRead, StopReceiver, StartReceiver

LEMMA RowTypeNext == TypeOK /\ [Next]_vars => RowTypeOK'
<1> SUFFICES ASSUME TypeOK, [Next]_vars PROVE RowTypeOK'
  OBVIOUS
<1> USE DEF TypeOK, RowTypeOK
<1>1. ASSUME NEW m \in Msgs, MarkRecall(m) \/ FinishSend(m) \/ FailSend(m)
      PROVE  RowTypeOK'
  BY <1>1 DEF MarkRecall, FinishSend, FailSend
<1>2. CASE FlushRecord
  BY <1>2 DEF FlushRecord, QueueTypeOK, Queue
<1>3. CASE HandleAck
  BY <1>3 DEF HandleAck, RowOf
<1>4. CASE UNCHANGED rowVars
  BY <1>4 DEF rowVars
<1> QED
  BY <1>1, <1>2, <1>3, <1>4
  DEF Next, vars, senderVars, StartSend, FlushSend, FlushStart, FlushStop, ReadAck,
      PeerSeen, PeerLost, CrashSender, Break, Receive, Flood, HandleMessage,
      OpenConversation, MarkRead, StopReceiver, StartReceiver, Tick

LEMMA TransmitType ==
  ASSUME TypeOK, NEW m \in Msgs, Transmit(m)
  PROVE  up' \in BOOLEAN /\ wire' \in Seq(Msgs) /\ back' \in Seq(Acks)
<1>1. wire \in Seq(Msgs) /\ wire' = Append(wire, m)
  BY Zenon DEF TypeOK, NetTypeOK, Transmit
<1>2. up' \in BOOLEAN /\ back' \in Seq(Acks)
  BY Zenon DEF TypeOK, NetTypeOK, Transmit
<1> QED
  BY <1>1, <1>2, AppendFacts

LEMMA ReplyType ==
  ASSUME TypeOK, NEW a \in Acks, Reply(a)
  PROVE  up' \in BOOLEAN /\ wire' \in Seq(Msgs) /\ back' \in Seq(Acks)
<1>1. back \in Seq(Acks) /\ (back' = Append(back, a) \/ back' = back)
  BY Zenon DEF TypeOK, NetTypeOK, Reply, netVars
<1>2. up' \in BOOLEAN /\ wire' \in Seq(Msgs)
  BY Zenon DEF TypeOK, NetTypeOK, Reply, netVars
<1> QED
  BY <1>1, <1>2, AppendFacts

LEMMA NetTypeNext == TypeOK /\ [Next]_vars => NetTypeOK'
<1> SUFFICES ASSUME TypeOK, [Next]_vars PROVE NetTypeOK'
  OBVIOUS
<1> USE DEF TypeOK, NetTypeOK
<1>1. ASSUME NEW m \in Msgs, StartSend(m) \/ FlushSend(m) PROVE NetTypeOK'
  <2>1. CASE Transmit(m)
    BY <1>1, <2>1, TransmitType DEF StartSend, FlushSend, receiverVars
  <2>2. CASE Refuse
    BY <1>1, <2>2 DEF StartSend, FlushSend, Refuse, netVars, receiverVars
  <2> QED
    BY <1>1, <2>1, <2>2 DEF StartSend, FlushSend
<1>2. CASE FlushStop
  BY <1>2 DEF FlushStop, Refuse, netVars, receiverVars
<1>3. CASE ReadAck
  BY <1>3, TailFacts, AppendFacts DEF ReadAck, receiverVars
<1>4. CASE HandleAck
  BY <1>4, TailFacts DEF HandleAck, netVars, receiverVars
<1>5. CASE PeerSeen \/ PeerLost
  BY <1>5 DEF PeerSeen, PeerLost, netVars, receiverVars
<1>6. CASE CrashSender \/ Break
  BY <1>6, EmptySeq DEF CrashSender, Break, senderVars, receiverVars
<1>7. CASE Receive
  <2>1. Head(wire) \in Msgs /\ wire' \in Seq(Msgs)
    BY <1>7, TailFacts DEF Receive
  <2>2. inboxB' = inboxB \/ inboxB' = Append(inboxB, Head(wire))
    BY <1>7 DEF Receive
  <2> QED
    BY <1>7, <2>1, <2>2, AppendFacts DEF Receive, senderVars
<1>8. CASE HandleMessage
  <2>1. PICK m \in Msgs : HandleText(m) \/ HandleShake(m) \/ HandleRecall(m)
    BY <1>8 DEF HandleMessage, HandleText, HandleShake, HandleRecall, Msgs
  <2>2. UNCHANGED netVars \/ \E a \in Acks : Reply(a)
    BY <2>1 DEF HandleText, HandleShake, HandleRecall, Acks
  <2>3. up' \in BOOLEAN /\ wire' \in Seq(Msgs) /\ back' \in Seq(Acks)
    BY <2>2, ReplyType DEF netVars
  <2> QED
    BY <1>8, <2>3, TailFacts DEF HandleMessage, senderVars
<1>9. CASE MarkRead
  <2>1. \E a \in Acks : Reply(a)
    BY <1>9 DEF MarkRead, Acks
  <2> QED
    BY <1>9, <2>1, ReplyType DEF MarkRead, senderVars, receiverVars
<1>10. CASE StopReceiver \/ StartReceiver
  BY <1>10, EmptySeq DEF StopReceiver, StartReceiver, senderVars
<1>11. CASE UNCHANGED <<present, up, bUp, inboxA, back, wire, inboxB>>
  BY <1>11
<1> QED
  BY <1>1, <1>2, <1>3, <1>4, <1>5, <1>6, <1>7, <1>8, <1>9, <1>10, <1>11
  DEF Next, vars, senderVars, receiverVars, netVars, MarkRecall, FinishSend, FailSend,
      FlushStart, FlushRecord, Flood, OpenConversation, Tick

LEMMA ReceiverTypeNext == TypeOK /\ [Next]_vars => ReceiverTypeOK'
<1> SUFFICES ASSUME TypeOK, [Next]_vars PROVE ReceiverTypeOK'
  OBVIOUS
<1> USE BoundsAssumption DEF TypeOK, ReceiverTypeOK
<1>1. CASE Receive
  <2>1. Head(wire) \in Msgs
    BY <1>1, TailFacts DEF Receive, NetTypeOK
  <2>2. seen' = seen \/ seen' = [seen EXCEPT ![Head(wire)] = 0]
    BY <1>1 DEF Receive
  <2> QED
    BY <1>1, <2>1, <2>2 DEF Receive, storeVars, viewVars
<1>2. CASE Flood
  BY <1>2 DEF Flood, storeVars, viewVars
<1>3. CASE HandleMessage
  <2>1. PICK m \in Texts \cup Groups \cup Shakes \cup Recalls :
          HandleText(m) \/ HandleShake(m) \/ HandleRecall(m)
    BY <1>3 DEF HandleMessage, HandleText, HandleShake, HandleRecall
  <2>2. /\ histB' \subseteq Msgs /\ histB \subseteq histB' 
        /\ recalledB' \subseteq histB' /\ unread' \in Nat
    BY <2>1 DEF HandleText, HandleShake, HandleRecall, InsertRow, InsertFails, Msgs
  <2>3. shakes' \in [Shakes -> 0 .. MaxShakes]
    BY <2>1 DEF HandleText, HandleShake, HandleRecall
  <2> QED
    BY <1>3, <2>2, <2>3 DEF HandleMessage
<1>4. CASE OpenConversation
  BY <1>4 DEF OpenConversation
<1>5. CASE StopReceiver \/ StartReceiver
  BY <1>5 DEF StopReceiver, StartReceiver, storeVars, viewVars
<1>6. CASE Tick
  BY <1>6 DEF Tick, InWindow, storeVars, viewVars
<1>7. CASE UNCHANGED <<seen, storeVars, viewVars>>
  BY <1>7 DEF storeVars, viewVars
<1> QED
  BY <1>1, <1>2, <1>3, <1>4, <1>5, <1>6, <1>7
  DEF Next, vars, receiverVars, MarkRecall, StartSend, FinishSend, FailSend, FlushSend,
      FlushStart, FlushRecord, FlushStop, ReadAck, HandleAck, PeerSeen, PeerLost,
      CrashSender, Break, MarkRead

LEMMA TypeNext == TypeOK /\ [Next]_vars => TypeOK'
  BY CallTypeNext, QueueTypeNext, RowTypeNext, NetTypeNext, ReceiverTypeNext DEF TypeOK

\* Every variable keeps to its type, with any messages, bounds and faults: no
\* receipt is recorded without a row and nothing is flushed that is not queued.
THEOREM TypeCorrect == Spec => []TypeOK
  BY TypeInit, TypeNext, PTL DEF Spec

-----------------------------------------------------------------------------
(* What one step does to rows, envelopes and receipts. *)

LEMMA RowsStay ==
  ASSUME TypeOK, [Next]_vars
  PROVE  histB \subseteq histB' /\ recalledB \subseteq recalledB' /\ recalledA \subseteq recalledA'
<1>1. CASE HandleMessage
  BY <1>1 DEF HandleMessage, HandleText, HandleShake, HandleRecall, InsertRow,
              InsertFails, senderVars, rowVars
<1>2. ASSUME NEW m \in Msgs, MarkRecall(m)
      PROVE  histB \subseteq histB' /\ recalledB \subseteq recalledB' /\ recalledA \subseteq recalledA'
  BY <1>2 DEF MarkRecall, receiverVars, storeVars
<1>3. CASE UNCHANGED <<histB, recalledB, recalledA>>
  BY <1>3
<1> QED
  BY <1>1, <1>2, <1>3
  DEF Next, vars, senderVars, receiverVars, storeVars, rowVars, StartSend, FinishSend,
      FailSend, FlushSend, FlushStart, FlushRecord, FlushStop, ReadAck, HandleAck,
      PeerSeen, PeerLost, CrashSender, Break, Receive, Flood, OpenConversation,
      MarkRead, StopReceiver, StartReceiver, Tick

LEMMA InFlightType == TypeOK => InFlight \subseteq Msgs
  BY DEF TypeOK, NetTypeOK, InFlight, Range

LEMMA InFlightNext ==
  ASSUME TypeOK, [Next]_vars, NEW k \in InFlight'
  PROVE  \/ k \in InFlight
         \/ k \in Msgs /\ StartSend(k) /\ Transmit(k) /\ outcome' = [outcome EXCEPT ![k] = "handed"]
         \/ k \in Msgs /\ FlushSend(k)
<1> DEFINE Goal == \/ k \in InFlight
                   \/ k \in Msgs /\ StartSend(k) /\ Transmit(k)
                         /\ outcome' = [outcome EXCEPT ![k] = "handed"]
                   \/ k \in Msgs /\ FlushSend(k)
<1>0. wire \in Seq(Msgs) /\ inboxB \in Seq(Msgs)
  BY DEF TypeOK, NetTypeOK
<1>1. ASSUME NEW m \in Msgs, StartSend(m) PROVE Goal
  <2>1. CASE Transmit(m) /\ outcome' = [outcome EXCEPT ![m] = "handed"]
    <3>1. InFlight' = InFlight \cup {m}
      BY <1>0, <1>1, <2>1, AppendFacts DEF InFlight, StartSend, Transmit, receiverVars
    <3> QED
      BY <1>1, <2>1, <3>1
  <2>2. CASE Refuse
    BY <1>1, <2>2 DEF InFlight, StartSend, Refuse, netVars, receiverVars
  <2> QED
    BY <1>1, <2>1, <2>2 DEF StartSend
<1>2. ASSUME NEW m \in Msgs, FlushSend(m) PROVE Goal
  <2>1. InFlight' = InFlight \cup {m}
    BY <1>0, <1>2, AppendFacts DEF InFlight, FlushSend, Transmit, receiverVars
  <2> QED
    BY <1>2, <2>1
<1>3. CASE FlushStop
  BY <1>3 DEF InFlight, FlushStop, Refuse, netVars, receiverVars
<1>4. CASE CrashSender \/ Break
  BY <1>4, EmptyRange DEF InFlight, CrashSender, Break, senderVars, receiverVars
<1>5. CASE Receive
  <2>1. Head(wire) \in Range(wire) /\ Head(wire) \in Msgs /\ Range(wire') \subseteq Range(wire)
    BY <1>0, <1>5, TailFacts DEF Receive
  <2>2. inboxB' = inboxB \/ inboxB' = Append(inboxB, Head(wire))
    BY <1>5 DEF Receive
  <2>3. Range(Append(inboxB, Head(wire))) = Range(inboxB) \cup {Head(wire)}
    BY <1>0, <2>1, AppendFacts
  <2>4. Range(inboxB') \subseteq Range(inboxB) \cup Range(wire)
    BY <2>1, <2>2, <2>3
  <2> QED
    BY <2>1, <2>4 DEF InFlight
<1>6. CASE HandleMessage
  <2>1. Range(inboxB') \subseteq Range(inboxB)
    BY <1>0, <1>6, TailFacts DEF HandleMessage
  <2>2. wire' = wire
    BY <1>6 DEF HandleMessage, HandleText, HandleShake, HandleRecall, Reply, netVars
  <2> QED
    BY <2>1, <2>2 DEF InFlight
<1>7. CASE MarkRead
  BY <1>7 DEF InFlight, MarkRead, Reply, netVars, receiverVars
<1>8. CASE StopReceiver \/ StartReceiver
  BY <1>8, EmptyRange DEF InFlight, StopReceiver, StartReceiver
<1>9. CASE UNCHANGED <<wire, inboxB>>
  BY <1>9 DEF InFlight
<1> QED
  BY <1>1, <1>2, <1>3, <1>4, <1>5, <1>6, <1>7, <1>8, <1>9
  DEF Next, vars, senderVars, receiverVars, netVars, MarkRecall, FinishSend, FailSend,
      FlushStart, FlushRecord, ReadAck, HandleAck, PeerSeen, PeerLost, Flood,
      OpenConversation, Tick

LEMMA StoredNext ==
  ASSUME TypeOK, [Next]_vars, NEW k \in histB'
  PROVE  k \in histB \/ k \in InFlight \ Recalls
<1>1. CASE HandleMessage
  <2>1. Head(inboxB) \in Range(inboxB)
    BY <1>1, TailFacts DEF HandleMessage, TypeOK, NetTypeOK
  <2>2. PICK m : m = Head(inboxB) /\ (HandleText(m) \/ HandleShake(m) \/ HandleRecall(m))
    BY <1>1 DEF HandleMessage
  <2>3. histB' = histB \/ (m \notin Recalls /\ histB' = histB \cup {m})
    <3>1. histB' = histB \/ histB' = histB \cup {m}
      BY <2>2 DEF HandleText, HandleShake, HandleRecall, InsertRow, InsertFails
    <3>2. m \in Recalls => histB' = histB
      BY <2>2, KindsAssumption DEF HandleText, HandleShake, HandleRecall
    <3> QED
      BY <3>1, <3>2
  <2> QED
    BY <2>1, <2>2, <2>3 DEF InFlight
<1>2. CASE UNCHANGED histB
  BY <1>2
<1> QED
  BY <1>1, <1>2
  DEF Next, vars, senderVars, receiverVars, storeVars, MarkRecall, StartSend, FinishSend,
      FailSend, FlushSend, FlushStart, FlushRecord, FlushStop, ReadAck, HandleAck,
      PeerSeen, PeerLost, CrashSender, Break, Receive, Flood, OpenConversation,
      MarkRead, StopReceiver, StartReceiver, Tick

LEMMA ReceiptsNext ==
  ASSUME TypeOK, [Next]_vars, NEW a \in Receipts'
  PROVE  a \in Receipts \/ a.id \in histB'
<1>0. back \in Seq(Acks) /\ inboxA \in Seq(Acks)
  BY DEF TypeOK, NetTypeOK
<1>1. ASSUME NEW m \in Msgs, StartSend(m) \/ FlushSend(m) PROVE a \in Receipts
  BY <1>1 DEF Receipts, StartSend, FlushSend, Transmit, Refuse, netVars
<1>2. CASE FlushStop
  BY <1>2 DEF Receipts, FlushStop, Refuse, netVars
<1>3. CASE ReadAck
  <2>1. Head(back) \in Range(back) /\ Head(back) \in Acks /\ Range(back') \subseteq Range(back)
    BY <1>0, <1>3, TailFacts DEF ReadAck
  <2>2. Range(inboxA') = Range(inboxA) \cup {Head(back)}
    BY <1>0, <1>3, <2>1, AppendFacts DEF ReadAck
  <2> QED
    BY <2>1, <2>2 DEF Receipts
<1>4. CASE HandleAck
  BY <1>0, <1>4, TailFacts DEF Receipts, HandleAck, netVars
<1>5. CASE CrashSender \/ Break
  BY <1>5, EmptyRange DEF Receipts, CrashSender, Break, senderVars
<1>6. ASSUME NEW b \in Acks, Reply(b), b.id \in histB', UNCHANGED inboxA
      PROVE  a \in Receipts \/ a.id \in histB'
  <2>1. back' = back \/ back' = Append(back, b)
    BY <1>6 DEF Reply, netVars
  <2>2. Range(Append(back, b)) = Range(back) \cup {b}
    BY <1>0, <1>6, AppendFacts
  <2> QED
    BY <1>6, <2>1, <2>2 DEF Receipts
<1>7. CASE HandleMessage
  <2>1. UNCHANGED inboxA
    BY <1>7 DEF HandleMessage, senderVars
  <2>2. \/ UNCHANGED back
        \/ \E b \in Acks : Reply(b) /\ b.id \in histB'
    BY <1>7 DEF HandleMessage, HandleText, HandleShake, HandleRecall, InsertRow, Acks, netVars
  <2> QED
    BY <1>6, <2>1, <2>2 DEF Receipts
<1>8. CASE MarkRead
  <2>1. UNCHANGED inboxA
    BY <1>8 DEF MarkRead, senderVars
  <2>2. \E b \in Acks : Reply(b) /\ b.id \in histB'
    BY <1>8 DEF MarkRead, Acks, receiverVars, storeVars
  <2> QED
    BY <1>6, <2>1, <2>2
<1>9. CASE StopReceiver \/ StartReceiver
  BY <1>9, EmptyRange DEF Receipts, StopReceiver, StartReceiver, senderVars
<1>10. CASE UNCHANGED <<back, inboxA>>
  BY <1>10 DEF Receipts
<1> QED
  BY <1>1, <1>2, <1>3, <1>4, <1>5, <1>7, <1>8, <1>9, <1>10
  DEF Next, vars, senderVars, netVars, MarkRecall, FinishSend, FailSend, FlushStart,
      FlushRecord, PeerSeen, PeerLost, Receive, Flood, OpenConversation, Tick

-----------------------------------------------------------------------------
(* Acknowledgements and the queue. *)

LEMMA AcksNext == TypeOK /\ AcksTruthful /\ [Next]_vars => AcksTruthful'
<1> SUFFICES ASSUME TypeOK, AcksTruthful, [Next]_vars PROVE AcksTruthful'
  OBVIOUS
<1>1. histB \subseteq histB'
  BY RowsStay
<1>2. ASSUME NEW a \in Receipts' PROVE a.id \in histB'
  BY <1>1, <1>2, ReceiptsNext DEF AcksTruthful
<1>3. CASE HandleAck
  <2>1. Head(inboxA) \in Receipts
    BY <1>3, TailFacts DEF HandleAck, Receipts, TypeOK, NetTypeOK
  <2> QED
    BY <1>1, <1>2, <1>3, <2>1 DEF AcksTruthful, HandleAck, RowOf
<1>4. CASE UNCHANGED <<delivered, read>>
  BY <1>1, <1>2, <1>4 DEF AcksTruthful
<1> QED
  BY <1>3, <1>4
  DEF Next, vars, senderVars, rowVars, MarkRecall, StartSend, FinishSend, FailSend,
      FlushSend, FlushStart, FlushRecord, FlushStop, ReadAck, PeerSeen, PeerLost,
      CrashSender, Break, Receive, Flood, HandleMessage, OpenConversation, MarkRead,
      StopReceiver, StartReceiver, Tick

\* Every receipt the sender records, or that is on its way to it, speaks of a
\* message the receiver has stored.
THEOREM ReceiptsAreTruthful == Spec => []AcksTruthful
<1>1. Init => AcksTruthful
  BY EmptyRange DEF Init, AcksTruthful, Receipts
<1> QED
  BY <1>1, AcksNext, TypeCorrect, PTL DEF Spec

LEMMA SettledNext ==
  TypeOK /\ AcksTruthful /\ RetryUntilSettled /\ [Next]_vars => RetryUntilSettled'
<1> SUFFICES ASSUME TypeOK, AcksTruthful, RetryUntilSettled, [Next]_vars,
                    NEW m \in Msgs, outcome'[m] \in {"spread", "queued"}
             PROVE  m \in Queue' \/ waited'[m] > MaxAge \/ m \in Texts \cap histB'
  BY DEF RetryUntilSettled
<1> USE DEF TypeOK, CallTypeOK, QueueTypeOK, Queue
<1>0. histB \subseteq histB'
  BY RowsStay
<1>1. ASSUME NEW k \in Msgs, FinishSend(k)
      PROVE  m \in Queue' \/ waited'[m] > MaxAge \/ m \in Texts \cap histB'
  <2>1. CASE Enqueue(k)
    <3>1. Queue' = Queue \cup {k} /\ waited' = [waited EXCEPT ![k] = 0]
      BY <2>1, EnqueueType DEF Enqueue
    <3>2. outcome'[m] = outcome[m] \/ m = k
      BY <1>1 DEF FinishSend
    <3> QED
      BY <1>0, <3>1, <3>2 DEF RetryUntilSettled
  <2>2. CASE ~Enqueue(k)
    <3>1. outcome[m] \in {"spread", "queued"} /\ NotEnqueued
      BY <1>1, <2>2 DEF FinishSend
    <3> QED
      BY <1>0, <3>1 DEF RetryUntilSettled, NotEnqueued
  <2> QED
    BY <2>1, <2>2
<1>2. ASSUME NEW k \in Msgs, MarkRecall(k) \/ StartSend(k) \/ FailSend(k)
      PROVE  m \in Queue' \/ waited'[m] > MaxAge \/ m \in Texts \cap histB'
  BY <1>0, <1>2 DEF RetryUntilSettled, MarkRecall, StartSend, FailSend, queueVars
<1>3. CASE FlushStart
  BY <1>0, <1>3 DEF RetryUntilSettled, FlushStart, Expired, callVars
<1>4. CASE HandleAck
  <2>1. Head(inboxA) \in Receipts /\ Head(inboxA) \in Acks
    BY <1>4, TailFacts DEF HandleAck, Receipts, NetTypeOK
  <2>2. Head(inboxA).id \in Texts \cap histB
    BY <2>1 DEF AcksTruthful, Acks
  <2> QED
    BY <1>0, <1>4, <2>2 DEF RetryUntilSettled, HandleAck, callVars
<1>5. CASE CrashSender
  BY <1>0, <1>5 DEF RetryUntilSettled, CrashSender
<1>6. CASE Tick
  BY <1>0, <1>6, BoundsAssumption DEF RetryUntilSettled, Tick
<1>7. CASE UNCHANGED <<outcome, queuedMs, waited>>
  BY <1>0, <1>7 DEF RetryUntilSettled
<1> QED
  BY <1>1, <1>2, <1>3, <1>4, <1>5, <1>6, <1>7
  DEF Next, vars, senderVars, callVars, queueVars, FlushSend, FlushRecord, FlushStop,
      ReadAck, PeerSeen, PeerLost, Break, Receive, Flood, HandleMessage,
      OpenConversation, MarkRead, StopReceiver, StartReceiver

\* A queued message leaves the queue only when the receiver has stored it or it
\* has reached the age limit, whatever crashes, breaks or fails in between.
THEOREM QueueKeepsTrying == Spec => []RetryUntilSettled
<1>1. Init => RetryUntilSettled
  BY DEF Init, RetryUntilSettled
<1> QED
  BY <1>1, SettledNext, TypeCorrect, ReceiptsAreTruthful, PTL DEF Spec

-----------------------------------------------------------------------------
(* The two histories. *)

LEMMA KeepsNext ==
  ASSUME {"crash", "storeA"} \cap Faults = {}
  PROVE  TypeOK /\ SenderKeepsWhatArrived /\ [Next]_vars => SenderKeepsWhatArrived'
<1> SUFFICES ASSUME TypeOK, SenderKeepsWhatArrived, [Next]_vars,
                    NEW m \in (InFlight' \cup histB') \ Recalls
             PROVE  m \in histA' \cup inserting' \/ outcome'[m] = "handed"
  BY DEF SenderKeepsWhatArrived
<1> USE DEF TypeOK, CallTypeOK
<1>1. ASSUME m \in Msgs, StartSend(m), outcome' = [outcome EXCEPT ![m] = "handed"]
      PROVE  outcome'[m] = "handed"
  BY <1>1
<1>2. ASSUME FlushSend(m) PROVE m \in inserting'
  BY <1>2 DEF FlushSend
<1>3. ASSUME m \in InFlight \cup histB, m \in histA \cup inserting \/ outcome[m] = "handed"
      PROVE  m \in histA' \cup inserting' \/ outcome'[m] = "handed"
  <2>0. m \in Msgs \ Recalls
    BY <1>3, InFlightType DEF ReceiverTypeOK
  <2>1. ASSUME NEW k \in Msgs, FinishSend(k)
        PROVE  m \in histA' \cup inserting' \/ outcome'[m] = "handed"
    BY <1>3, <2>0, <2>1 DEF FinishSend
  <2>2. ASSUME NEW k \in Msgs, MarkRecall(k) \/ StartSend(k) \/ FailSend(k)
        PROVE  m \in histA' \cup inserting' \/ outcome'[m] = "handed"
    <3>1. ~FailSend(k)
      BY DEF FailSend
    <3> QED
      BY <1>3, <2>0, <2>2, <3>1 DEF MarkRecall, StartSend, queueVars, rowVars
  <2>3. ASSUME NEW k \in Msgs, FlushSend(k)
        PROVE  m \in histA' \cup inserting' \/ outcome'[m] = "handed"
    BY <1>3, <2>3 DEF FlushSend, callVars, rowVars
  <2>4. CASE FlushRecord
    BY <1>3, <2>4 DEF FlushRecord, callVars
  <2>5. ~CrashSender
    BY DEF CrashSender
  <2>6. CASE UNCHANGED <<outcome, histA, inserting>>
    BY <1>3, <2>6
  <2> QED
    BY <2>1, <2>2, <2>3, <2>4, <2>5, <2>6
    DEF Next, vars, senderVars, callVars, queueVars, rowVars, FlushStart, FlushStop,
        ReadAck, HandleAck, PeerSeen, PeerLost, Break, Receive, Flood, HandleMessage,
        OpenConversation, MarkRead, StopReceiver, StartReceiver, Tick
<1>4. m \in InFlight \cup histB =>
        m \in histA \cup inserting \/ outcome[m] = "handed"
  BY DEF SenderKeepsWhatArrived
<1> QED
  BY <1>1, <1>2, <1>3, <1>4, InFlightNext, StoredNext

\* Without a crash of the sender and without failures of its database, nobody
\* ever holds a message that is missing from its sender's own history.
THEOREM HistoriesAgree ==
  ASSUME {"crash", "storeA"} \cap Faults = {}
  PROVE  Spec => []SenderKeepsWhatArrived
<1>1. Init => SenderKeepsWhatArrived
  BY EmptyRange DEF Init, SenderKeepsWhatArrived, InFlight
<1> QED
  BY <1>1, KeepsNext, TypeCorrect, PTL DEF Spec

LEMMA UnreadNext ==
  ASSUME "storeB" \notin Faults
  PROVE  TypeOK /\ UnreadExact /\ [Next]_vars => UnreadExact'
<1> SUFFICES ASSUME TypeOK, UnreadExact, [Next]_vars PROVE UnreadExact'
  OBVIOUS
<1> DEFINE New == (histB \ Groups) \ opened
<1>0. IsFiniteSet(New) /\ histB \subseteq Msgs /\ opened \subseteq histB
  BY KindsAssumption, FS_Subset DEF TypeOK, ReceiverTypeOK
<1>1. ASSUME NEW m, InsertRow(m), UNCHANGED opened PROVE UnreadExact'
  <2>1. CASE m \in histB \cup Groups
    <3>1. New' = New
      BY <1>1, <2>1 DEF InsertRow
    <3> QED
      BY <1>1, <2>1, <3>1 DEF InsertRow, UnreadExact
  <2>2. CASE m \notin histB \cup Groups
    <3>1. New' = New \cup {m} /\ m \notin New
      BY <1>0, <1>1, <2>2 DEF InsertRow
    <3>2. Cardinality(New') = Cardinality(New) + 1
      BY <1>0, <3>1, FS_AddElement
    <3> QED
      BY <1>1, <2>2, <3>2 DEF InsertRow, UnreadExact
  <2> QED
    BY <2>1, <2>2
<1>2. CASE UNCHANGED <<histB, opened, unread>>
  BY <1>2 DEF UnreadExact
<1>3. CASE HandleMessage
  <2>1. PICK m : HandleText(m) \/ HandleShake(m) \/ HandleRecall(m)
    BY <1>3 DEF HandleMessage
  <2>2. InsertRow(m) \/ UNCHANGED <<histB, unread>>
    BY <2>1 DEF HandleText, HandleShake, HandleRecall, InsertFails
  <2> QED
    BY <1>1, <1>2, <1>3, <2>2 DEF HandleMessage
<1>4. CASE OpenConversation
  <2>1. New' = {} /\ unread' = 0
    BY <1>4 DEF OpenConversation
  <2> QED
    BY <2>1, FS_EmptySet DEF UnreadExact
<1> QED
  BY <1>2, <1>3, <1>4
  DEF Next, vars, receiverVars, storeVars, viewVars, MarkRecall, StartSend, FinishSend,
      FailSend, FlushSend, FlushStart, FlushRecord, FlushStop, ReadAck, HandleAck,
      PeerSeen, PeerLost, CrashSender, Break, Receive, Flood, MarkRead, StopReceiver,
      StartReceiver, Tick

\* Unless the receiver's database fails, its unread counter is exact however
\* often messages are delivered again.
THEOREM UnreadCounts ==
  ASSUME "storeB" \notin Faults
  PROVE  Spec => []UnreadExact
<1>1. Init => UnreadExact
  BY FS_EmptySet DEF Init, UnreadExact
<1> QED
  BY <1>1, UnreadNext, TypeCorrect, PTL DEF Spec

-----------------------------------------------------------------------------
(* Nothing is queued, in flight or stored that no call has offered. *)

Begun == \A m \in Queue \cup InFlight \cup histB : outcome[m] # "idle"

LEMMA OutcomeNext ==
  ASSUME TypeOK, [Next]_vars, NEW m \in Msgs
  PROVE  /\ outcome[m] # "idle" => outcome'[m] # "idle"
         /\ outcome[m] = "idle" /\ outcome'[m] # "idle" => MarkRecall(m) \/ StartSend(m)
<1> USE DEF TypeOK, CallTypeOK
<1>1. ASSUME NEW k \in Msgs, MarkRecall(k) \/ StartSend(k) \/ FinishSend(k) \/ FailSend(k)
      PROVE  /\ outcome[m] # "idle" => outcome'[m] # "idle"
             /\ outcome[m] = "idle" /\ outcome'[m] # "idle" => MarkRecall(m) \/ StartSend(m)
  BY <1>1 DEF MarkRecall, StartSend, FinishSend, FailSend
<1>2. CASE CrashSender
  BY <1>2 DEF CrashSender
<1>3. CASE UNCHANGED outcome
  BY <1>3
<1> QED
  BY <1>1, <1>2, <1>3
  DEF Next, vars, senderVars, callVars, FlushSend, FlushStart, FlushRecord, FlushStop,
      ReadAck, HandleAck, PeerSeen, PeerLost, Break, Receive, Flood, HandleMessage,
      OpenConversation, MarkRead, StopReceiver, StartReceiver, Tick

LEMMA BegunNext == TypeOK /\ Begun /\ [Next]_vars => Begun'
<1> SUFFICES ASSUME TypeOK, Begun, [Next]_vars, 
                    NEW m \in Queue' \cup InFlight' \cup histB'
             PROVE  outcome'[m] # "idle"
  BY DEF Begun
<1> USE DEF TypeOK, CallTypeOK, QueueTypeOK, Queue
<1>0. m \in Msgs
  BY InFlightType, InFlightNext, TypeNext DEF ReceiverTypeOK
<1>1. CASE m \in Queue \cup InFlight \cup histB
  BY <1>0, <1>1, OutcomeNext DEF Begun
<1>2. CASE m \in InFlight' \ InFlight
  <2>1. CASE outcome' = [outcome EXCEPT ![m] = "handed"]
    BY <1>0, <2>1
  <2>2. CASE FlushSend(m)
    BY <1>1, <2>2 DEF FlushSend
  <2> QED
    BY <1>2, <2>1, <2>2, InFlightNext
<1>3. CASE m \in Queue' \ Queue
  <2>a. ~FlushStart
    BY <1>3 DEF FlushStart
  <2>b. ~HandleAck
    BY <1>3 DEF HandleAck
  <2>1. PICK k \in Msgs : FinishSend(k)
    BY <1>3, <2>a, <2>b
    DEF Next, vars, senderVars, queueVars, MarkRecall, StartSend, FailSend, FlushSend,
        FlushRecord, FlushStop, ReadAck, PeerSeen, PeerLost, CrashSender, Break,
        Receive, Flood, HandleMessage, OpenConversation, MarkRead, StopReceiver,
        StartReceiver, Tick
  <2>2. CASE Enqueue(k)
    <3>1. k = m
      BY <1>3, <2>2, EnqueueType
    <3> QED
      BY <2>1, <3>1 DEF FinishSend
  <2>3. CASE NotEnqueued
    BY <1>3, <2>3 DEF NotEnqueued
  <2> QED
    BY <2>1, <2>2, <2>3 DEF FinishSend
<1> QED
  BY <1>1, <1>2, <1>3, StoredNext

LEMMA BegunAlways == Spec => []Begun
<1>1. Init => Begun
  BY EmptyRange DEF Init, Begun, Queue, InFlight
<1> QED
  BY <1>1, BegunNext, TypeCorrect, PTL DEF Spec

-----------------------------------------------------------------------------
(* Recalls. *)

\* A recall that has been accepted has been marked at the sender.
RecallMarked == \A r \in Recalls : outcome[r] # "idle" => Target[r] \in recalledA

LEMMA MarkedNext ==
  TypeOK /\ Begun /\ RecallMarked /\ RecallOnBothSides /\ [Next]_vars
    => RecallMarked' /\ RecallOnBothSides'
<1> SUFFICES ASSUME TypeOK, Begun, RecallMarked, RecallOnBothSides, [Next]_vars
             PROVE  RecallMarked' /\ RecallOnBothSides'
  OBVIOUS
<1>0. recalledA \subseteq recalledA'
  BY RowsStay
<1>4. RecallMarked'
  <2> SUFFICES ASSUME NEW r \in Recalls, outcome'[r] # "idle"
               PROVE  Target[r] \in recalledA'
    BY DEF RecallMarked
  <2>1. CASE outcome[r] # "idle"
    BY <1>0, <2>1 DEF RecallMarked
  <2>2. CASE outcome[r] = "idle"
    <3>1. MarkRecall(r)
      BY <2>2, OutcomeNext DEF Msgs, StartSend
    <3> QED
      BY <3>1 DEF MarkRecall
  <2> QED
    BY <2>1, <2>2
<1>5. RecallOnBothSides'
  <2>1. CASE HandleMessage
    <3>1. PICK m : m = Head(inboxB) /\ (HandleText(m) \/ HandleShake(m) \/ HandleRecall(m))
      BY <2>1 DEF HandleMessage
    <3>2. Head(inboxB) \in InFlight
      BY <2>1, TailFacts DEF HandleMessage, InFlight, TypeOK, NetTypeOK
    <3>3. m \in Recalls => Target[m] \in recalledA
      BY <3>1, <3>2 DEF Begun, RecallMarked
    <3> QED
      BY <1>0, <3>1, <3>3
      DEF RecallOnBothSides, HandleText, HandleShake, HandleRecall, InsertRow, InsertFails
  <2>2. CASE UNCHANGED recalledB
    BY <1>0, <2>2 DEF RecallOnBothSides
  <2> QED
    BY <2>1, <2>2
    DEF Next, vars, receiverVars, storeVars, MarkRecall, StartSend, FinishSend, FailSend,
        FlushSend, FlushStart, FlushRecord, FlushStop, ReadAck, HandleAck, PeerSeen,
        PeerLost, CrashSender, Break, Receive, Flood, OpenConversation, MarkRead,
        StopReceiver, StartReceiver, Tick
<1> QED
  BY <1>4, <1>5

\* Whoever sees a message as recalled, its sender does too.
THEOREM RecallIsAgreed == Spec => []RecallOnBothSides
<1>1. Init => RecallMarked /\ RecallOnBothSides
  BY DEF Init, RecallMarked, RecallOnBothSides, Msgs
<1> QED
  BY <1>1, MarkedNext, TypeCorrect, BegunAlways, PTL DEF Spec

\* Once a message shows as recalled it does for ever, also when a late copy of
\* it is delivered.
THEOREM RecallIsFinal == Spec => RecallSticks
<1>1. TypeOK /\ [Next]_vars => [recalledB \subseteq recalledB']_vars
  BY RowsStay
<1> QED
  BY <1>1, TypeCorrect, PTL DEF Spec, RecallSticks

-----------------------------------------------------------------------------
(* The abstract mailbox. *)

Phase == [m \in Msgs |-> PhaseOf(m)]

LEMMA PhaseUnchanged ==
  ASSUME TypeOK, UNCHANGED <<histB, delivered>>,
         \A m \in Msgs : outcome[m] = "idle" <=> outcome'[m] = "idle"
  PROVE  UNCHANGED Phase
  BY DEF Phase, PhaseOf

LEMMA MailboxInit == Init => Box!Init
  BY DEF Init, Box!Init, PhaseOf

LEMMA MailboxNext == TypeOK /\ Begun /\ AcksTruthful /\ [Next]_vars => [Box!Next]_Phase
<1> SUFFICES ASSUME TypeOK, Begun, AcksTruthful, [Next]_vars
             PROVE  Box!Next \/ UNCHANGED Phase
  BY DEF Phase
<1> USE DEF TypeOK, CallTypeOK
<1>0. \A m \in Msgs : outcome[m] # "idle" => outcome'[m] # "idle"
  BY OutcomeNext
<1>1. ASSUME NEW m \in Msgs, MarkRecall(m) \/ StartSend(m)
      PROVE  Box!Next \/ UNCHANGED Phase
  <2>1. UNCHANGED <<histB, delivered>>
    BY <1>1 DEF MarkRecall, StartSend, rowVars, receiverVars, storeVars
  <2>2. outcome'[m] # "idle" /\ \A k \in Msgs \ {m} : outcome'[k] = outcome[k]
    BY <1>1 DEF MarkRecall, StartSend
  <2>3. CASE outcome[m] = "idle"
    <3>1. Phase[m] = "new" /\ Phase' = [Phase EXCEPT ![m] = "offered"]
      BY <2>1, <2>2, <2>3 DEF Phase, PhaseOf, Begun, AcksTruthful
    <3> QED
      BY <3>1 DEF Phase, Box!Next, Box!Offer, Box!Advance
  <2>4. CASE outcome[m] # "idle"
    BY <2>1, <2>2, <2>4, PhaseUnchanged
  <2> QED
    BY <2>3, <2>4
<1>2. ASSUME NEW m \in Msgs, FinishSend(m) \/ FailSend(m) PROVE UNCHANGED Phase
  <2>1. UNCHANGED <<histB, delivered>>
    BY <1>2 DEF FinishSend, FailSend, receiverVars, storeVars
  <2>2. \A k \in Msgs : outcome[k] = "idle" => outcome'[k] = "idle"
    BY <1>2 DEF FinishSend, FailSend
  <2> QED
    BY <1>0, <2>1, <2>2, PhaseUnchanged
<1>3. CASE CrashSender
  <2>1. \A k \in Msgs : outcome[k] = "idle" => outcome'[k] = "idle"
    BY <1>3 DEF CrashSender
  <2> QED
    BY <1>0, <1>3, <2>1, PhaseUnchanged DEF CrashSender, rowVars, receiverVars, storeVars
<1>4. CASE HandleAck
  <2>1. PICK m : m = Head(inboxA).id
    OBVIOUS
  <2>2. m \in Texts /\ m \in histB
    BY <1>4, <2>1, TailFacts DEF HandleAck, AcksTruthful, Receipts, NetTypeOK, Acks
  <2>3. m \in Msgs /\ outcome' = outcome /\ histB' = histB
    BY <1>4, <2>2 DEF Msgs, HandleAck, callVars, receiverVars, storeVars
  <2>4. CASE delivered' = delivered
    BY <2>3, <2>4, PhaseUnchanged
  <2>5. CASE delivered' = delivered \cup {m} /\ m \notin delivered
    <3>1. Phase[m] = "stored" /\ Phase' = [Phase EXCEPT ![m] = "confirmed"]
      BY <2>2, <2>3, <2>5 DEF Phase, PhaseOf
    <3> QED
      BY <2>3, <3>1 DEF Phase, Box!Next, Box!Confirm, Box!Advance
  <2>6. delivered' = delivered \/ delivered' = delivered \cup {m}
    BY <1>4, <2>1 DEF HandleAck, RowOf
  <2> QED
    BY <2>4, <2>5, <2>6
<1>5. CASE HandleMessage
  <2>1. PICK m : m = Head(inboxB) /\ (HandleText(m) \/ HandleShake(m) \/ HandleRecall(m))
    BY <1>5 DEF HandleMessage
  <2>2. m \in Msgs /\ outcome[m] # "idle"
    BY <1>5, <2>1, TailFacts DEF HandleMessage, Begun, InFlight, NetTypeOK
  <2>3. UNCHANGED <<outcome, delivered>>
    BY <1>5 DEF HandleMessage, senderVars, callVars, rowVars
  <2>4. histB' = histB \/ histB' = histB \cup {m}
    BY <2>1 DEF HandleText, HandleShake, HandleRecall, InsertRow, InsertFails
  <2>5. CASE histB' = histB
    BY <2>3, <2>5, PhaseUnchanged
  <2>6. CASE histB' = histB \cup {m} /\ m \notin histB
    <3>1. Phase[m] = "offered" /\ Phase' = [Phase EXCEPT ![m] = "stored"]
      BY <2>2, <2>3, <2>6 DEF Phase, PhaseOf, AcksTruthful
    <3> QED
      BY <2>2, <3>1 DEF Phase, Box!Next, Box!Store, Box!Advance
  <2> QED
    BY <2>4, <2>5, <2>6
<1>6. CASE UNCHANGED <<outcome, histB, delivered>>
  BY <1>6, PhaseUnchanged
<1> QED
  BY <1>1, <1>2, <1>3, <1>4, <1>5, <1>6
  DEF Next, vars, senderVars, receiverVars, callVars, rowVars, storeVars, FlushSend,
      FlushStart, FlushRecord, FlushStop, ReadAck, PeerSeen, PeerLost, Break, Receive,
      Flood, OpenConversation, MarkRead, StopReceiver, StartReceiver, Tick

\* The protocol with all its faults is a mailbox: each step offers, stores or
\* confirms one message, in that order and never backwards, or is a stutter.
THEOREM DeliveryIsMailbox == Spec => ImplementsMailbox
<1>1. TypeOK /\ Begun /\ AcksTruthful /\ [Next]_vars => [Box!Next]_Phase
  BY MailboxNext
<1> QED
  BY <1>1, MailboxInit, TypeCorrect, BegunAlways, ReceiptsAreTruthful, PTL
  DEF Spec, ImplementsMailbox, Box!Spec, Phase
=============================================================================
