------------------------------ MODULE Delivery ------------------------------
(***************************************************************************)
(* Delivery of direct messages from one node, the sender, to one peer, the *)
(* receiver: App::send_text / send_shake / send_group_text /               *)
(* recall_message, the pending queue and its retry clock, the connection,  *)
(* the receiver's deduplication window, the two event pumps and the        *)
(* Delivered and Read acknowledgements (fq-core, fq-net, fq-store).        *)
(*                                                                         *)
(* Time is counted in ticks.  An age is capped where the code stops        *)
(* telling values apart: MaxAge + 1 is "older than PENDING_MAX_AGE", and   *)
(* an identifier seen DedupTTL ticks ago is no longer in the window.       *)
(*                                                                         *)
(* Message identifiers are UUIDv7: their order is that of creation.        *)
(***************************************************************************)
EXTENDS Naturals, Sequences, FiniteSets, Functions

CONSTANTS
    Texts,        \* direct texts (acknowledged by the receiver)
    Groups,       \* this member's copies of group texts (never acknowledged)
    Shakes,       \* window shakes (never acknowledged)
    Recalls,      \* recall requests (never acknowledged)
    Target,       \* the message each recall request withdraws
    MaxAge,       \* PENDING_MAX_AGE in ticks
    DedupTTL,     \* time to live of a deduplication entry, in ticks
    RecallWindow, \* RECALL_WINDOW_MS in ticks
    Faults,       \* the kinds of fault that may happen
    MaxWire,      \* bound: envelopes in flight per direction
    MaxInbox,     \* bound: events waiting for a pump (the code drops none until
                  \* EVENT_CAPACITY of them wait)
    MaxShakes     \* bound: where the count of shakes shown saturates

Msgs == Texts \cup Groups \cup Shakes \cup Recalls
Recallable == {Target[r] : r \in Recalls}

\* break: a connection dies; refuse: no connection can be made; crash, stop:
\* the process of the sender, of the receiver, ends; storeA, storeB: a
\* statement on the database of the sender, of the receiver, fails;
\* flood: the deduplication window overflows.
FaultKinds == {"break", "refuse", "crash", "stop", "storeA", "storeB", "flood"}

ASSUME KindsAssumption ==
    /\ Msgs \subseteq Nat
    /\ IsFiniteSet(Msgs)
    /\ Texts \cap (Groups \cup Shakes \cup Recalls) = {}
    /\ Groups \cap (Shakes \cup Recalls) = {}
    /\ Shakes \cap Recalls = {}
    /\ Target \in [Recalls -> Texts \cup Groups]
    /\ Faults \subseteq FaultKinds
ASSUME BoundsAssumption ==
    /\ MaxAge \in Nat /\ DedupTTL \in Nat \ {0} /\ RecallWindow \in Nat
    /\ MaxWire \in Nat /\ MaxInbox \in Nat /\ MaxShakes \in Nat

VARIABLES
    \* the sender
    outcome,   \* progress of each send call and, once it returned, its SendOutcome
    age,       \* time since the hand-over of each message that may be recalled
    queuedMs,  \* pending_messages: order of the enqueue stamps, 0 if there is no row
    waited,    \* time each row has been in pending_messages
    flushing,  \* rows of flush_pending's snapshot that are still to be sent
    inserting, \* the row flush_pending has handed over and not yet inserted
    histA,     \* the sender's message rows
    delivered, \* rows with delivered_ms
    read,      \* rows with read_ms
    recalledA, \* rows marked recalled
    inboxA,    \* acknowledgements waiting for the sender's event pump
    present,   \* the sender's peer table does not say Offline
    \* the network
    up,        \* the sender's connection table has an entry for the receiver
    wire,      \* envelopes in flight to the receiver
    back,      \* acknowledgements in flight to the sender
    \* the receiver
    bUp,       \* the receiver's process runs
    seen,      \* deduplication window: ticks since the identifier was inserted
    inboxB,    \* messages waiting for the receiver's event pump
    histB,     \* the receiver's message rows
    recalledB, \* rows marked recalled
    unread,    \* unread counter of the conversation with the sender
    opened,    \* rows that were there when the conversation was last opened
    shakes     \* Shaken events shown, for each shake

callVars == <<outcome, age>>
queueVars == <<queuedMs, waited, flushing, inserting>>
rowVars == <<histA, delivered, read, recalledA>>
senderVars == <<callVars, queueVars, rowVars, inboxA, present>>
netVars == <<up, wire, back>>
storeVars == <<histB, recalledB, unread>>
viewVars == <<opened, shakes>>
receiverVars == <<bUp, seen, inboxB, storeVars, viewVars>>
vars == <<senderVars, netVars, receiverVars>>

Outcomes == {"idle", "marked", "handed", "refused", "spread", "sent", "queued", "cut"}
Acks == [id : Texts, status : {"delivered", "read"}]

Queue == {m \in Msgs : queuedMs[m] > 0}
InWindow(m) == seen[m] < DedupTTL
InFlight == Range(wire) \cup Range(inboxB)
Receipts == Range(back) \cup Range(inboxA)

CallTypeOK ==
    /\ outcome \in [Msgs -> Outcomes]
    /\ age \in [Recallable -> 0 .. RecallWindow + 1]
QueueTypeOK ==
    /\ queuedMs \in [Msgs -> Nat]
    /\ waited \in [Msgs -> 0 .. MaxAge + 1]
    /\ flushing \subseteq Queue /\ inserting \subseteq Queue
RowTypeOK ==
    /\ histA \subseteq Msgs
    /\ delivered \subseteq histA /\ read \subseteq histA /\ recalledA \subseteq histA
NetTypeOK ==
    /\ present \in BOOLEAN /\ up \in BOOLEAN /\ bUp \in BOOLEAN
    /\ inboxA \in Seq(Acks) /\ back \in Seq(Acks)
    /\ wire \in Seq(Msgs) /\ inboxB \in Seq(Msgs)
ReceiverTypeOK ==
    /\ seen \in [Msgs -> 0 .. DedupTTL]
    /\ histB \subseteq Msgs /\ recalledB \subseteq histB /\ opened \subseteq histB
    /\ unread \in Nat
    /\ shakes \in [Shakes -> 0 .. MaxShakes]

\* Each variable ranges over the values the code can store in it; only rows of
\* the history carry acknowledgement times and recall marks, only rows of the
\* queue are flushed.
TypeOK == CallTypeOK /\ QueueTypeOK /\ RowTypeOK /\ NetTypeOK /\ ReceiverTypeOK

Init ==
    /\ outcome = [m \in Msgs |-> "idle"]
    /\ age = [m \in Recallable |-> 0]
    /\ queuedMs = [m \in Msgs |-> 0]
    /\ waited = [m \in Msgs |-> 0]
    /\ flushing = {} /\ inserting = {}
    /\ histA = {} /\ delivered = {} /\ read = {} /\ recalledA = {}
    /\ inboxA = <<>> /\ wire = <<>> /\ back = <<>>
    /\ present = FALSE /\ up = FALSE /\ bUp = FALSE
    /\ seen = [m \in Msgs |-> DedupTTL]
    /\ inboxB = <<>>
    /\ histB = {} /\ recalledB = {} /\ opened = {}
    /\ unread = 0
    /\ shakes = [m \in Shakes |-> 0]

-----------------------------------------------------------------------------
(* The connection, as send_direct sees it. *)

\* send_direct returns Ok: the envelope is in the queue of a connection, an
\* existing one or one dialled now.  Nothing says that it will arrive.
Transmit(m) ==
    /\ up \/ bUp
    /\ Len(wire) < MaxWire
    /\ wire' = Append(wire, m)
    /\ up' = TRUE
    /\ UNCHANGED back

\* send_direct returns Err: no dial succeeds, or the connection found in the
\* table has just been closed.
Refuse ==
    /\ "refuse" \in Faults \/ ~(up \/ bUp)
    /\ UNCHANGED netVars

\* The connection dies (reset, replaced by a newer one, peer gone) and takes
\* with it whatever is in flight.
Break ==
    /\ "break" \in Faults
    /\ up
    /\ up' = FALSE /\ wire' = <<>> /\ back' = <<>>
    /\ UNCHANGED <<senderVars, receiverVars>>

-----------------------------------------------------------------------------
(* The sender: user operations. *)

\* mutant: the local mark is left to the end of the call
MarkRecallLate(r) ==
    /\ r \in Recalls
    /\ outcome[r] = "idle"
    /\ Target[r] \in histA
    /\ age[Target[r]] <= RecallWindow
    /\ outcome' = [outcome EXCEPT ![r] = "marked"]
    /\ UNCHANGED <<age, queueVars, rowVars, inboxA, present, netVars, receiverVars>>

\* recall_message accepts: the target is an own row, young enough, and is
\* marked recalled before any peer hears of it.
MarkRecall(r) ==
    /\ r \in Recalls
    /\ outcome[r] = "idle"
    /\ Target[r] \in histA
    /\ age[Target[r]] <= RecallWindow
    /\ recalledA' = recalledA \cup {Target[r]}
    /\ outcome' = [outcome EXCEPT ![r] = "marked"]
    /\ UNCHANGED <<age, queueVars, histA, delivered, read, inboxA, present,
                   netVars, receiverVars>>

\* A send call creates the envelope and hands it to the network layer.
StartSend(m) ==
    /\ outcome[m] = IF m \in Recalls THEN "marked" ELSE "idle"
    /\ \/ Transmit(m) /\ outcome' = [outcome EXCEPT ![m] = "handed"]
       \/ Refuse /\ outcome' = [outcome EXCEPT ![m] = "refused"]
    /\ UNCHANGED <<age, queueVars, rowVars, inboxA, present, receiverVars>>

\* Store::enqueue: the row is stamped later than every row of the table.
Enqueue(m) ==
    /\ \E n \in 1 .. Cardinality(Msgs) :
         /\ \A k \in Msgs : queuedMs[k] < n
         /\ n = 1 \/ \E k \in Msgs : queuedMs[k] = n - 1
         /\ queuedMs' = [queuedMs EXCEPT ![m] = n]
    /\ waited' = [waited EXCEPT ![m] = 0]

NotEnqueued == UNCHANGED <<queuedMs, waited>>

\* The call goes on after send_direct returned.  A text or shake that was
\* handed over enters the history, one that was not enters only the queue (the
\* flush adds it to the history).  A group text enters the history in any case,
\* once the copies of all members are handed over or queued; a recall never.
FinishSend(m) ==
    /\ \/ /\ outcome[m] = "handed"
          /\ outcome' = [outcome EXCEPT ![m] = "sent"]
          /\ histA' = histA \cup ({m} \ Recalls)
          /\ NotEnqueued
       \/ /\ outcome[m] = "refused"
          /\ outcome' = [outcome EXCEPT ![m] = IF m \in Groups THEN "spread" ELSE "queued"]
          /\ Enqueue(m)
          /\ UNCHANGED histA
       \/ /\ outcome[m] = "spread"
          /\ outcome' = [outcome EXCEPT ![m] = "queued"]
          /\ histA' = histA \cup {m}
          /\ NotEnqueued
    /\ UNCHANGED <<age, flushing, inserting, delivered, read, recalledA, inboxA,
                   present, netVars, receiverVars>>

\* The insert or the enqueue fails and the call returns an error.  The enqueue
\* of a group text may fail without one, the history is then written as usual.
FailSend(m) ==
    /\ "storeA" \in Faults
    /\ \/ outcome[m] = "handed" /\ m \notin Recalls /\ UNCHANGED histA
       \/ outcome[m] \in {"refused", "spread"} /\ UNCHANGED histA
       \/ outcome[m] = "refused" /\ m \in Groups /\ histA' = histA \cup {m}
    /\ outcome' = [outcome EXCEPT ![m] = "cut"]
    /\ UNCHANGED <<age, queueVars, delivered, read, recalledA, inboxA, present,
                   netVars, receiverVars>>

-----------------------------------------------------------------------------
(* The sender: event pump. *)

PumpIdle == flushing = {} /\ inserting = {}

Expired == {m \in Queue : waited[m] > MaxAge}

\* mutant: the age limit is never applied
FlushStartNoLimit ==
    /\ PumpIdle
    /\ present
    /\ Queue # {}
    /\ flushing' = Queue
    /\ UNCHANGED <<callVars, queuedMs, waited, inserting, rowVars, inboxA,
                   present, netVars, receiverVars>>

\* The one-second clock, or the peer seen again, starts a flush of the rows
\* queued for a peer that is not offline.  Rows older than PENDING_MAX_AGE are
\* the first in the order of their stamps and are given up before any is sent.
FlushStart ==
    /\ PumpIdle
    /\ present
    /\ Queue # {}
    /\ \E removed \in IF "storeA" \in Faults THEN SUBSET Expired ELSE {Expired} :
         queuedMs' = [m \in Msgs |-> IF m \in removed THEN 0 ELSE queuedMs[m]]
    /\ flushing' = Queue \ Expired
    /\ UNCHANGED <<callVars, waited, inserting, rowVars, inboxA, present,
                   netVars, receiverVars>>

\* ORDER BY queued_ms: the flush goes on with the oldest row of its snapshot.
\* The envelope is handed over and the row stays in the queue until an
\* acknowledgement removes it.
FlushSend(m) ==
    /\ inserting = {}
    /\ m \in flushing
    /\ \A k \in flushing : queuedMs[m] <= queuedMs[k]
    /\ Transmit(m)
    /\ flushing' = flushing \ {m}
    /\ inserting' = {m}
    /\ UNCHANGED <<callVars, queuedMs, waited, rowVars, inboxA, present, receiverVars>>

\* mutants: handing a message over takes it off the queue; a flushed message
\* does not enter the history
FlushRecordDequeues ==
    /\ inserting # {}
    /\ histA' = histA \cup inserting
    /\ queuedMs' = [m \in Msgs |-> IF m \in inserting THEN 0 ELSE queuedMs[m]]
    /\ inserting' = {}
    /\ UNCHANGED <<callVars, waited, flushing, delivered, read, recalledA,
                   inboxA, present, netVars, receiverVars>>
FlushRecordForgets ==
    /\ inserting # {}
    /\ inserting' = {}
    /\ UNCHANGED <<callVars, queuedMs, waited, flushing, rowVars,
                   inboxA, present, netVars, receiverVars>>

\* The message handed over enters the history, whatever its kind.
FlushRecord ==
    /\ inserting # {}
    /\ \/ histA' = histA \cup inserting
       \/ "storeA" \in Faults /\ UNCHANGED histA
    /\ inserting' = {}
    /\ UNCHANGED <<callVars, queuedMs, waited, flushing, delivered, read,
                   recalledA, inboxA, present, netVars, receiverVars>>

\* The peer cannot be reached: the rest of the snapshot waits for the next flush.
FlushStop ==
    /\ inserting = {}
    /\ flushing # {}
    /\ Refuse
    /\ flushing' = {}
    /\ UNCHANGED <<callVars, queuedMs, waited, inserting, rowVars, inboxA,
                   present, receiverVars>>

\* The reader task passes an acknowledgement on to the pump.
ReadAck ==
    /\ back # <<>>
    /\ Len(inboxA) < MaxInbox
    /\ inboxA' = Append(inboxA, Head(back))
    /\ back' = Tail(back)
    /\ UNCHANGED <<callVars, queueVars, rowVars, present, up, wire, receiverVars>>

\* mutant: the row is taken to exist
RowOfAny(id) == {id}

\* Store::update_ack: UPDATE ... WHERE id: nothing happens without a row.
RowOf(id) == {id} \cap histA

\* Kind::Ack: the row takes the times of the receipt and the message leaves
\* the queue.  Either statement may fail, the other is executed all the same.
HandleAck ==
    /\ PumpIdle
    /\ inboxA # <<>>
    /\ LET a == Head(inboxA) IN
       /\ \/ /\ delivered' = delivered \cup RowOf(a.id)
             /\ read' = IF a.status = "read" THEN read \cup RowOf(a.id) ELSE read
          \/ "storeA" \in Faults /\ UNCHANGED <<delivered, read>>
       /\ \/ queuedMs' = [queuedMs EXCEPT ![a.id] = 0]
          \/ "storeA" \in Faults /\ UNCHANGED queuedMs
    /\ inboxA' = Tail(inboxA)
    /\ UNCHANGED <<callVars, waited, flushing, inserting, histA, recalledA,
                   present, netVars, receiverVars>>

\* Presence datagrams and the sweep move the peer between online and offline.
PeerSeen ==
    /\ bUp /\ ~present
    /\ present' = TRUE
    /\ UNCHANGED <<callVars, queueVars, rowVars, inboxA, netVars, receiverVars>>

PeerLost ==
    /\ present
    /\ present' = FALSE
    /\ UNCHANGED <<callVars, queueVars, rowVars, inboxA, netVars, receiverVars>>

\* The sender's process dies and starts again: the database survives, send
\* calls in progress, the flush, the events and the connections do not.
CrashSender ==
    /\ "crash" \in Faults
    /\ outcome' = [m \in Msgs |-> IF outcome[m] \in {"marked", "handed", "refused", "spread"}
                                  THEN "cut" ELSE outcome[m]]
    /\ flushing' = {} /\ inserting' = {} /\ inboxA' = <<>> /\ present' = FALSE
    /\ up' = FALSE /\ wire' = <<>> /\ back' = <<>>
    /\ UNCHANGED <<age, queuedMs, waited, rowVars, receiverVars>>

-----------------------------------------------------------------------------
(* The receiver. *)

\* reader_task: an identifier in the deduplication window is dropped, any
\* other enters the window and is passed on to the pump.
Receive ==
    /\ bUp
    /\ wire # <<>>
    /\ LET m == Head(wire) IN
       IF InWindow(m)
       THEN UNCHANGED <<seen, inboxB>>
       ELSE /\ Len(inboxB) < MaxInbox
            /\ seen' = [seen EXCEPT ![m] = 0]
            /\ inboxB' = Append(inboxB, m)
    /\ wire' = Tail(wire)
    /\ UNCHANGED <<senderVars, up, back, bUp, storeVars, viewVars>>

\* The other identifiers received meanwhile (a file transfer sends one per
\* chunk) fill the window, which evicts its oldest entries.
Flood ==
    /\ "flood" \in Faults
    /\ seen' = [m \in Msgs |-> DedupTTL]
    /\ UNCHANGED <<senderVars, netVars, bUp, inboxB, storeVars, viewVars>>

\* mutants: a repeated insert counts again; a repeated insert replaces the row
InsertRowCountsTwice(m) ==
    /\ histB' = histB \cup {m}
    /\ unread' = IF m \in Groups THEN unread ELSE unread + 1
    /\ UNCHANGED recalledB
InsertRowReplaces(m) ==
    /\ histB' = histB \cup {m}
    /\ unread' = IF m \in histB \cup Groups THEN unread ELSE unread + 1
    /\ recalledB' = recalledB \ {m}

\* Store::insert_message: INSERT OR IGNORE, and only a new row counts as
\* unread.  Group texts belong to the group's conversation.
InsertRow(m) ==
    /\ histB' = histB \cup {m}
    /\ unread' = IF m \in histB \cup Groups THEN unread ELSE unread + 1
    /\ UNCHANGED recalledB

\* The row and the conversation are two statements and no transaction: when
\* the second fails the row is there and the counter does not know.
InsertFails(m) ==
    /\ "storeB" \in Faults
    /\ histB' \in {histB, histB \cup {m}}
    /\ UNCHANGED <<recalledB, unread>>

\* The pump answers over the same connection, or over one it dials; when that
\* fails the receipt is lost.
Reply(a) ==
    \/ /\ Len(back) < MaxWire
       /\ back' = Append(back, a)
       /\ up' = TRUE
       /\ UNCHANGED wire
    \/ /\ "refuse" \in Faults
       /\ UNCHANGED netVars

\* mutant: the receipt does not wait for the insert
HandleTextAckFirst(m) ==
    /\ m \in Texts \cup Groups
    /\ InsertRow(m) \/ InsertFails(m)
    /\ IF m \in Texts THEN Reply([id |-> m, status |-> "delivered"])
                      ELSE UNCHANGED netVars
    /\ UNCHANGED shakes

\* Kind::Text: store the row, then acknowledge it unless it is a group text.
\* When the insert fails there is no acknowledgement.
HandleText(m) ==
    /\ m \in Texts \cup Groups
    /\ \/ /\ InsertRow(m)
          /\ IF m \in Texts THEN Reply([id |-> m, status |-> "delivered"])
                            ELSE UNCHANGED netVars
       \/ InsertFails(m) /\ UNCHANGED netVars
    /\ UNCHANGED shakes

\* Kind::Shake: the window shakes whether or not the insert succeeds.
HandleShake(m) ==
    /\ m \in Shakes
    /\ InsertRow(m) \/ InsertFails(m)
    /\ shakes' = [shakes EXCEPT ![m] = IF @ < MaxShakes THEN @ + 1 ELSE @]
    /\ UNCHANGED netVars

\* Kind::Recall: a row received from this sender is marked; a message that is
\* not there is ignored, and so is a failure to mark it.
HandleRecall(m) ==
    /\ m \in Recalls
    /\ \/ recalledB' = recalledB \cup ({Target[m]} \cap histB)
       \/ "storeB" \in Faults /\ UNCHANGED recalledB
    /\ UNCHANGED <<histB, unread, shakes, netVars>>

HandleMessage ==
    /\ bUp
    /\ inboxB # <<>>
    /\ LET m == Head(inboxB) IN HandleText(m) \/ HandleShake(m) \/ HandleRecall(m)
    /\ inboxB' = Tail(inboxB)
    /\ UNCHANGED <<senderVars, bUp, seen, opened>>

\* mark_conversation_read: the unread counter is cleared.
OpenConversation ==
    /\ bUp
    /\ unread' = 0
    /\ opened' = histB
    /\ UNCHANGED <<senderVars, netVars, bUp, seen, inboxB, histB, recalledB, shakes>>

\* mark_read: a Read receipt for the latest text received.
MarkRead ==
    /\ bUp
    /\ \E m \in Texts \cap histB :
         /\ \A k \in Texts \cap histB : k <= m
         /\ Reply([id |-> m, status |-> "read"])
    /\ UNCHANGED <<senderVars, receiverVars>>

\* The receiver's process ends and starts again: the database survives, the
\* window and the events do not.  The sender may keep a dead connection.
StopReceiver ==
    /\ "stop" \in Faults
    /\ bUp
    /\ bUp' = FALSE
    /\ inboxB' = <<>>
    /\ seen' = [m \in Msgs |-> DedupTTL]
    /\ wire' = <<>> /\ back' = <<>>
    /\ UNCHANGED <<senderVars, up, storeVars, viewVars>>

StartReceiver ==
    /\ ~bUp
    /\ bUp' = TRUE
    /\ up' = FALSE /\ wire' = <<>> /\ back' = <<>>
    /\ UNCHANGED <<senderVars, seen, inboxB, storeVars, viewVars>>

-----------------------------------------------------------------------------
Tick ==
    /\ age' = [m \in Recallable |->
                 IF outcome[m] # "idle" /\ age[m] <= RecallWindow
                 THEN age[m] + 1 ELSE age[m]]
    /\ waited' = [m \in Msgs |-> IF m \in Queue /\ waited[m] <= MaxAge
                                 THEN waited[m] + 1 ELSE waited[m]]
    /\ seen' = [m \in Msgs |-> IF InWindow(m) THEN seen[m] + 1 ELSE seen[m]]
    /\ UNCHANGED <<outcome, queuedMs, flushing, inserting, rowVars, inboxA, present,
                   netVars, bUp, inboxB, storeVars, viewVars>>

Next ==
    \/ \E m \in Msgs : \/ MarkRecall(m) \/ StartSend(m) \/ FinishSend(m)
                       \/ FailSend(m) \/ FlushSend(m)
    \/ FlushStart \/ FlushRecord \/ FlushStop
    \/ ReadAck \/ HandleAck \/ PeerSeen \/ PeerLost \/ CrashSender
    \/ Break
    \/ Receive \/ Flood \/ HandleMessage \/ OpenConversation \/ MarkRead
    \/ StopReceiver \/ StartReceiver
    \/ Tick

Spec == Init /\ [][Next]_vars

\* Fairness of the scheduler, the network and the clock: the pumps, the reader
\* tasks, send calls and time go on.  Nothing is asked of users, of faults or
\* of the presence of the peer.
Fairness ==
    /\ \A m \in Msgs : WF_vars(FinishSend(m))
    /\ WF_vars(FlushStart) /\ WF_vars(FlushRecord)
    /\ WF_vars(FlushStop \/ \E m \in Msgs : FlushSend(m))
    /\ WF_vars(ReadAck) /\ WF_vars(HandleAck)
    /\ WF_vars(Receive) /\ WF_vars(HandleMessage) /\ WF_vars(Tick)

FairSpec == Spec /\ Fairness

-----------------------------------------------------------------------------
(* Safety. *)

\* What the sender shows as delivered or read, and what any receipt on its way
\* says, is stored at the receiver: a receipt is sent only after the insert
\* succeeded, whatever is repeated, lost or restarted (event_pump, Kind::Text
\* and Kind::Ack).
AcksTruthful ==
    /\ delivered \cup read \subseteq histB
    /\ \A a \in Receipts : a.id \in histB

\* A message put in the queue stays there until the receiver has stored it or
\* it is older than PENDING_MAX_AGE; handing it to a connection never settles
\* it (flush_pending, remove_pending).
RetryUntilSettled ==
    \A m \in Msgs : outcome[m] \in {"spread", "queued"} =>
        m \in Queue \/ waited[m] > MaxAge \/ m \in Texts \cap histB

\* What the receiver stored or may yet receive, the sender has in its own
\* history too, unless its send call or the flush is just about to insert it
\* (send_text_mentions and flush_pending insert after the hand-over).  Holds as
\* long as the sender neither crashes nor fails to write: a message handed over
\* before a crash is never inserted.
SenderKeepsWhatArrived ==
    \A m \in (InFlight \cup histB) \ Recalls :
        m \in histA \cup inserting \/ outcome[m] = "handed"

\* The unread counter is the number of rows stored since the conversation was
\* last opened, although texts are delivered again whenever a receipt is lost
\* and the deduplication window has forgotten them (insert_message).  Holds as
\* long as the receiver does not fail to write.
UnreadExact == unread = Cardinality((histB \ Groups) \ opened)

\* A row shows as recalled at the receiver only if it does at the sender:
\* recall_message marks its own row before it tells anybody.
RecallOnBothSides == recalledB \subseteq recalledA

\* A late copy of a recalled message never brings its text back
\* (insert_message ignores a row that exists).
RecallSticks == [][recalledB \subseteq recalledB']_vars

-----------------------------------------------------------------------------
(* Liveness. *)

\* If the peer stays online, no row stays in the queue for ever: it is
\* acknowledged or it expires, also for the kinds that are never acknowledged
\* (flush_pending's age limit).
QueueDrains == <>[]present => \A m \in Msgs : []<>(m \notin Queue)
-----------------------------------------------------------------------------
(* The abstract specification. *)

\* The phase of a message: what its receiver has stored and its sender knows.
PhaseOf(m) ==
    IF m \in delivered THEN "confirmed"
    ELSE IF m \in histB THEN "stored"
    ELSE IF outcome[m] # "idle" THEN "offered"
    ELSE "new"

Box == INSTANCE Mailbox WITH Ids <- Msgs, phase <- [m \in Msgs |-> PhaseOf(m)]

\* Every step of the protocol offers, stores or confirms one message in that
\* order, or changes nothing the users can tell.
ImplementsMailbox == Box!Spec

-----------------------------------------------------------------------------
(* What README.md says of delivery and the code does not do. *)

\* README.md: a connection that dies halfway loses no message.  A message
\* reported as Sent is in flight, queued or stored at the receiver.
SentIsNotLost ==
    \A m \in Texts : outcome[m] = "sent" => m \in InFlight \cup Queue \cup histB

=============================================================================
