# A formal model of FQ-H

FQ-H is a serverless messenger for local networks: every node finds its peers by
signed UDP announcements, talks to them over Noise connections, keeps its
history in SQLite and transfers files in resumable chunks.  This directory holds
TLA+ specifications translated from its Rust sources, the TLC configurations
that check them on small instances, and theorems about them that TLAPS proves
for every value of the constants.

Run a model with `tlc -config <name>.cfg <module>` (the modules are in the table
of section 4), a proof with `tlapm <component>Proofs.tla`, for instance
`tlapm TransferProofs.tla`.

## 1. Inventory

| Component | Source | State | Operations | Hard part | What makes it correct |
|---|---|---|---|---|---|
| Delivery | `fq-core/src/lib.rs` | calls in progress, `pending_messages`, history rows with `delivered_ms`, `read_ms`, `recalled`, events of the pump | `send_text`, `send_shake`, `send_group_text`, `recall_message`, `flush_pending`, `event_pump`, `mark_read`, `mark_conversation_read` | a send is a hand-over, then an insert or enqueue; one pump and many calls share the store; peers vanish at any point | nothing queued is lost, receipts tell the truth, duplicates have no effect, both histories agree, a recall is final |
| Deduplication | `fq-net/src/dedup.rs` | ids with the time they were seen | `insert`, `prune` | time to live 300 s and capacity 4096 against resends for 600 s | an id in the window is not delivered again |
| Store | `fq-store/src/store.rs` | eight tables | inserts, updates, queue | statements without transactions; statements that fail | idempotent inserts, exact counters |
| Connections | `fq-net/src/lib.rs` | `conns`, `dialing`, a writer and a reader task each | `ensure_connection`, `dial`, `register_connection`, `reader_task`, `disconnect` | simultaneous dials, replacement, clean-up by a task that is no longer current | at most one registered connection, none removed by another's end |
| File transfer | `fq-net/src/transfer/` | session table, phase of each session, `.part` files, history rows, retry entries | offer, decide, request, chunk, done, abort, cancel, time-outs, retry | resume over changed sources, aborts crossing data, time-outs of different length at the two ends | a file is renamed only when it is what the sender read; every session ends |
| Presence | `fq-net/src/{discovery,peers,lib}.rs` | peer table with last-seen times | announce, heartbeat, leave, sweep, forget | loss, reordering, answers to announcements, storms | peers that are alive find each other; no storm |
| Trust | `fq-crypto/src/{tofu,persist,binding}.rs` | pins in memory and on disk | verify, pin, save, load | pins and disk drift apart over a crash | a node's key never changes silently |
| Channel, framing, codec | `fq-crypto/src/channel.rs`, `fq-net/src/transport.rs`, `fq-proto/src/` | nonces, partial frames | segment, reassemble, encode, decode | limits and boundaries | what is sent is what is received |
| Groups | `fq-core`, `fq-store` | groups, members | create, join on receipt, fan-out | partial fan-out, membership drift | one row per group message |
| Avatars, updates | `fq-core/src/lib.rs` | pull state per peer, package path | request, reply, back-off, version comparison | both ends pull at once | pulls stop; no downgrade |
| Desktop, CLI | `apps/` | view state | forward commands, render events | | |

How they interact: `fq-core` calls the node handle (`NodeHandle::send`, which
ends in `Shared::send_direct`) and the store (one mutex); the network layer
reports to the event pump through a broadcast channel; the reader task of a
connection filters duplicates and routes transfer messages to the sessions, all
others to the pump; presence datagrams update the peer table, and a peer that
comes online makes the pump flush the queue.

The hazards, each with its line and the property that guards it (or why none
does), are listed in `PROJECT.json`.

## 2. Modules

| Module | Content |
|---|---|
| `Delivery` | the protocol between one sender and one receiver, with faults |
| `Mailbox` | the abstract specification: each message is offered, stored, confirmed, in this order |
| `MCDelivery` | values of the constants for TLC |
| `Transfer` | the sessions of file transfers from one node to another and the receiver's disk, with faults |
| `FileCopy` | the abstract specification: files appear whole, under new names |
| `MCTransfer` | values of the constants for TLC |
| `SendJobs` | what the application makes of transfers: rows of the history, retries, restarts |
| `Connections` | the connection table of two nodes and the tasks of each connection |
| `Channel` | one direction of a connection: segments, frames, bytes |
| `Fifo` | the abstract specification of `Channel` |
| `Presence` | discovery, the peer table, pins of keys, the list of contacts |
| `Groups` | group chats: fan-out, recall, rows and previews of conversations |
| `Avatars` | how two nodes keep each other's avatar |
| `MCConnections`, `MCGroups`, `MCSendJobs` | values of the constants for TLC |
| `DeliveryProofs`, `TransferProofs`, `SendJobsProofs`, `ConnectionsProofs`, `ChannelProofs`, `PresenceProofs`, `GroupsProofs`, `AvatarsProofs` | theorems about the module of that name and their proofs |

The modules meet at contracts.  What `Delivery` assumes of a connection (an
envelope is handed over, refused, or lost with its connection) is what
`Connections` and `Channel` say in detail; the messages of one session in
`Transfer` cross such a connection in order, which is `ImplementsFifo`.
`SendJobs` knows of a session only that it ends, which `Transfer` shows
(`SessionsEnd`).  `Groups` repeats `Delivery` for several receivers with the
protocol cut short.

### Delivery

One sender and one receiver, the database and the process of each, and the
connection between them.  The other direction is the same protocol with the
roles exchanged; messages to other peers share no state with this one but the
order in the pump.

State and code:

* `outcome[m]` is the progress of the send call of `m`.  The call is split where
  the code awaits: `StartSend` is the part up to the return of `send_direct`
  (`handed` or `refused`), `FinishSend` the insert or the enqueue after it,
  `FailSend` the same when the database refuses.  A group text has a third part
  (`spread`): its history row is written after the copies of all members are
  handed over or queued.  A recall begins with `MarkRecall`.
* `queuedMs`, `waited` are the rows of `pending_messages` (stamp and age),
  `flushing` and `inserting` the progress of `flush_pending`: its snapshot, and
  the row handed over but not yet in the history.  A flush occupies the pump, so
  `HandleAck` and the next flush wait (`PumpIdle`), but send calls do not.
* `histA`, `delivered`, `read`, `recalledA`, and `histB`, `recalledB`, `unread`
  are the rows and the conversation counter of the two databases; `opened` and
  `shakes` record what the receiver's user has seen.
* `up`, `wire`, `back` are the connection: messages and receipts in flight
  include the queue of `writer_task`, the sockets and the peer's reader.
  `inboxA`, `inboxB` are the events that wait for the pumps.
* `seen` is the deduplication window: the age of each identifier.

`Transmit` is the success of `send_direct`: an envelope in a connection's queue,
which promises nothing.  A dead connection may stay in the table (`up` with the
receiver down), and envelopes put there are lost.

Faults are parameters: `Faults` selects which of a broken connection, a refused
dial, a crash of the sender, a stop of the receiver, a failing statement of
either database and an overflow of the deduplication window may happen.  A
theorem that excludes a fault says so in its assumption.

Abstractions.  A message is a number (UUIDv7 identifiers are ordered by time),
its kind is the set it belongs to.  Time is a tick: ages stop growing where the
code stops telling them apart.  Queue stamps keep only their order.  Contents,
encoding, cryptography and the rest of the events are left out.  One presence
flag stands for the sender's peer table; it changes freely, except that a
receiver that is down is not seen.

### Mailbox

`phase[m]` goes from `new` to `offered`, `stored` and `confirmed`, one message
and one phase a step.  `Delivery` implements it under the mapping `PhaseOf`,
which reads the phase of a message off both databases.

### Transfer

Any number of transfers from one sender to one receiver; a retry or a resume is a
new transfer of the same files, as in the code, where it gets a new token.

State and code:

* `sState[t]` is the phase of `sender_driver`: `open` waits for a request,
  `streaming` is inside `stream_entry`, whose locals are `sEntry`, `sFrom` (the
  offset asked for) and `sHash` (what the hasher has seen).  `served` is the set
  of files streamed to the end, `cancelled` the flag that `stream_entry` polls.
* `rState[t]` is the phase of `receiver_driver`: `pending` until the user decides,
  `setup` while the queue of entries advances, `opening` between the choice of a
  name (`unique_destination`) and the opening of its `.part` file, `waiting` for
  data.  `todo` is the queue with the current entry first; `name`, `inode`,
  `appending`, `rHash` are the fields of `CurrentRecv`.
* `data`, `part`, `final` are the disk: the content of a file, the `.part` file and
  the finished file of each destination.  A file is identified by the transfer that
  created it, so that a session that has it open goes on writing to it under
  whatever name it has by then.
* `toB`, `toA` are the messages under way in one transfer, from `send_direct` to
  the queue of the session.  `Break` drops a suffix of both: what was routed to a
  session before the connection died stays.

A block stands for its version of the source, a hash for the sequence of blocks
it was computed over; `SHA-256` collisions do not exist.  When a driver returns,
its locals are reset.

A manifest has at least one entry, as those of `build_manifest` have (its root is
always one); the proofs need this, for a transfer of nothing would be complete at
the receiver before the sender has served anything.

Not modelled: sources that change their length; data the operating system or
tokio had not written when a process dies; the time between looking at a `.part`
file and opening it (one step, `OpenPart`); the bounded queues of sessions that
share a connection; an old connection that still delivers after a new one was
registered; errors that well-behaved peers cannot cause (a request for an unknown
entry, an offset behind the end).  Update packages use the same drivers.

`Alone` keeps two live transfers from writing files of one name at the same
time, which the code does not do: the fault `overlap` takes this restriction
away, and the run `same_name` shows what happens then.  A second attempt while
the first session still waits for its time-out is allowed without it.

### FileCopy

Each name holds nothing or a whole file, and a step adds one file under a name
that was free.  `Transfer` implements it with the finished files as `copies`.

### SendJobs

A job is one file for one peer: a member's share of a group file, a file for one
peer, an update package a peer asked for, or a file that is offered to this node.
A token is a job and the number of its session.

* `session` is how the node sees each session.  One that sends is under way from
  its start; one that a peer offers first waits for a decision (`asked`,
  `Accept`), which users may fail to give.  A session ends at any moment, with
  success, a reason that `is_retryable_send_failure` accepts (`broken`), another
  one (`refused`) or a cancellation, and says so to the pump.  Only an offer nobody
  decides on ends without an event, by `PENDING_TIMEOUT` (`OfferExpires`).
* `events` is the broadcast channel to the pump, `pump` is false once its loop has
  returned.
* `row` is the table `transfers`, `outgoing` the map of remembered sources,
  `retries` the count that travels with an entry.
* `step` is where the call is with a job: between the start of the session, the
  row and the entry of the map the pump may handle the end of that session.
  `retry` is the task of `spawn_send_retry` with the same three steps.
* `Restart` is the end of the process and `App::start` with
  `mark_stale_transfers`, `PumpLags` the pump's loop that returns.

A session that starts is given a new token; which events a session emits before
its end (progress) is left out.

### Connections

Two nodes; a call of `send_direct` is one envelope.

* `call` is where a call is: looking into the table (`Look`), competing for the
  dialling lock (`Grab`), waiting for another dial, dialling, in the handshake,
  waiting for room in the queue (`Send`).  The look and the lock are two critical
  sections, as in the code.
* `table` and `dialing` are `Shared::conns` and `Shared::dialing`.
* `reader` and `writer` are the tasks of either end of a connection.  A reader
  fails at the end of its stream (`Ended`) or, as the first task of the connection to
  end, on an envelope it cannot take (`Unreadable`: too large, of another version,
  or one that does not decrypt or decode); `codec::encode` has no limit, so the
  writer never fails on an envelope.  A reader that has failed and found that the
  entry is its own (`own`) removes it in a second step.  A writer ends when nobody
  can send to its queue any more (`done`, it has written all), or when it is aborted
  or a write fails (`off`).
* `cut` are the connections that were reset, `silent` those on which nothing gets
  through any more and nobody is told, as when the peer loses its power.  What is
  written to a silent one is never acknowledged, and TCP gives it up in the end
  (`GivenUp`); without something to write it stays for ever, for the code sets no
  keepalive.
* `pipe` is what an end has put in its queue and the other has not read: the
  queue of the channel and the buffers of both sockets.  An abort, a failing
  write or a reset keeps a prefix of it.
* `got` are the envelopes that were read.

A dialler is through with the handshake when the acceptor has answered; whether the
acceptor then knows the dialler is decided on its own (`Admit`, fault
`stranger`).  Handshakes of strangers and the order of accepts are left out.

### Channel

The direction from the side that accepted a connection to the side that dialled:
it has the hand-over of the decoder after the handshake in addition, the other
direction has the same code without it.  Bytes are counted, not named: `frames`
are those written and not taken, `onWire` the bytes TCP still has, `buffered` and
`start` the fields of `FrameDecoder`.  A segment knows the envelope it is of, so
that `Whole` can say when joined segments are what `codec` can decode.  `Cut`
leaves any number of the bytes under way.

### Fifo

Messages are accepted and delivered in order and once; the stream ends when it
is cut or at a message that is too large, and otherwise everything is delivered
in the end.  `Channel` implements it, fairness included.

### Presence

Every node runs the same code.

* `table` is `PeerTable`: the status last heard, the key, and whether the last
  datagram is younger than the time-out (`fresh`), which `Age` ends.
* `pin` and `disk` are `TofuStore` and its file; `Receive` pins, and the pump
  saves when it handles the event (`HandleSeen`).
* `contact` is the table `peers`; `RemoveRow` and `Forget` are the two steps of
  `remove_peer`, `RefreshStart` and `RefreshWrite` those of `refresh_contacts`.
* `net` is a set of datagrams, each with the profile of its sender as it was.

A profile is reduced to its status.  The signature of a binding holds: nodes
announce themselves, not each other.  Heartbeats are not limited, other datagrams
by `MaxNet`.  Leave datagrams, which the code handles and never sends, and trust
settings of the user are left out.

### Groups

One group.  `row[n][m]` is the conversation under which node `n` has text `m`,
`conv` the table `conversations` with the time of the last row and its preview.
`call` and `todo` are `send_group_text` and `recall_message` between two members.
`pending` is keyed by envelope and receiver, as version 11 of the schema made it.
`filed` are the recalls that `flush_pending` has inserted as rows.  `heard`,
`owed` and `gone` are histories for the properties.  What `Delivery` has in detail
is short: a send is refused or puts the copy on the wire, and a row of the queue
is sent and filed in one step.

### Avatars

Two nodes, each with its image (`file`), the hash it announces, the hash it has
seen of the other, its cache of the other's image, the state of its requests
(`pull`) and the tasks that are about to answer (`answers`, with the image they
hold).  An image stands for its hash.  Back-off and jitter are left to chance,
except for `Settled`: see section 4.

## 3. Properties

| Property | Kind | Says |
|---|---|---|
| `Delivery!TypeOK` | type invariant | includes: marks and receipts only on rows that exist, flushed rows only from the queue |
| `AcksTruthful` | invariant | a receipt, in flight, waiting or recorded, is about a row the receiver has stored |
| `RetryUntilSettled` | invariant | a queued message stays queued until the receiver has stored it or it has expired |
| `SenderKeepsWhatArrived` | invariant | what is under way to or at the receiver is in the sender's history, or its insert is the next step |
| `UnreadExact` | invariant | the unread counter is the number of rows since the conversation was opened |
| `RecallOnBothSides` | invariant | what is recalled at the receiver is recalled at the sender |
| `RecallSticks` | action | no step withdraws a recall |
| `QueueDrains` | liveness | if the peer stays online no row stays in the queue for ever |
| `ImplementsMailbox` | refinement | `Delivery` implements `Mailbox` |
| `Transfer!TypeOK` | type invariant | includes: no stream reads past the end of its file |
| `WholeFiles` | invariant | a finished file is one version of the source, unmixed, however many attempts it took |
| `CompletedAgrees` | invariant | files the receiver has completely did not fail for the sender |
| `GoodCopyKept` | action | the receiver does not throw away a complete copy of the source |
| `SessionsEnd` | liveness | a transfer ends at both ends |
| `ImplementsFileCopy` | refinement | `Transfer` implements `FileCopy`: nothing that is there is touched |
| `SendJobs!TypeOK` | type invariant | includes: only files the user sends are remembered, each by its newest session |
| `OneSession` | invariant | one file has one session at a time, even while a retry races the end of the session before it |
| `RowsTruthful` | invariant | a row says how its session ended, none says so while it goes on, and one file has one row |
| `RetryConcludes` | liveness | a retry comes to an end: a new session, or the user is told |
| `OffersSettle` | liveness | the row of an incoming file does not stay active, as long as the pump runs, unless nobody decided on the offer |
| `Connections!TypeOK` | type invariant | includes: the table names connections that were registered, queues keep their limit |
| `OneDial` | invariant | one call at a time dials a peer, and the lock is taken exactly while it does |
| `LostOnlyWithConnection` | invariant | an envelope is lost only with a task that was aborted or failed, a reset, or a peer that no longer reads |
| `CallsReturn` | liveness | every call of `send_direct` returns, unless both readers of its connection failed while both queues were full (`Stuck`) |
| `NoBlackHole` | liveness | a connection whose writer has ended, or whose other end reads no more, leaves the table: whichever task ends first, the other three follow; one that is silent leaves it once something was written to it |
| `Channel!TypeOK` | type invariant | includes: every byte of a frame is on the wire or in the buffer, none is skipped |
| `BufferBounded` | invariant | the decoder's buffer holds less than a frame, a read and the threshold |
| `ImplementsFifo` | refinement | `Channel` implements `Fifo`, liveness included |
| `Presence!TypeOK` | type invariant | includes: what the peer table knows was announced with the pinned key |
| `PinsSaved` | invariant | a pin that is not in the file waits for a pump that will save it |
| `PinsFinal` | action | a key in the file of pins is never replaced |
| `ContactListed` | invariant | whoever is in the peer table is a contact, or will be one as soon as a step under way goes on |
| `NoStorm` | liveness | in the end only heartbeats are under way |
| `ViewsConverge` | liveness | in the end nodes see each other as they are |
| `Groups!TypeOK` | type invariant | includes: what is queued, under way or heard was sent by a call |
| `NoCopyForgotten` | invariant | a member's copy is handled, under way or queued, unless age or a dying connection took it |
| `PreviewTruthful` | invariant | a conversation that previews a text has its time as the last, and the text is not recalled while it is filed there |
| `Avatars!TypeOK` | type invariant | includes: large images do not travel with requests, requests keep to their limit |
| `AvatarsConverge` | liveness | in the end a node that can store it has the other's image |
| `PullsEnd` | liveness | in the end nobody asks any more |
| `FailedIsNotComplete` | documented, violated | a transfer that failed for the sender is not complete for the receiver |
| `SentIsNotLost` | documented, violated | a text reported as sent is never lost |

## 4. Runs

| Run | Module | Configuration | Checks | Why these bounds |
|---|---|---|---|---|
| `delivery_repeats` | `MCDelivery` | a group copy and a shake; break, refuse, stop, flood; two envelopes in flight; fairness | `SenderKeepsWhatArrived`, `UnreadExact`, `QueueDrains` | two messages are the least for the order of the queue, for a flush that stops halfway and for an unread count above one; neither is acknowledged, so both are sent again for as long as the age limit lets them |
| `delivery_faults` | `MCDelivery` | a text and its recall, all faults | `TypeOK`, `AcksTruthful`, `RecallOnBothSides`, `RetryUntilSettled`, `RecallSticks`, `ImplementsMailbox` | one message and one request meet every pair of faults |
| `transfer_resume` | `MCTransfer` | a file, and a directory with that file; two versions of two blocks; all faults but `overlap` and `editLive` | the six properties of `Transfer` that hold | two blocks give an empty, a partial and a full `.part` file, two versions a mix, two transfers a resume, a second name and an old session that has not ended |
| `send_jobs` | `MCSendJobs` | one file, one update, one offer; two retries; one deletion, restart or lag | `TypeOK`, `OneSession`, `RowsTruthful`, `RetryConcludes`, `OffersSettle` | three sessions of one file let a retry follow a retry; the other two jobs share the pump and the table with it |
| `connections` | `MCConnections` | two calls of one node, one of the other; two connections; queues of one; three events | `TypeOK`, `OneDial`, `LostOnlyWithConnection`, `CallsReturn`, `NoBlackHole` | two connections replace each other, a second call waits for the lock or for room, and one reset, silence, restart or disconnect strikes between any two steps; refused dials, strangers and unreadable envelopes are not counted |
| `channel` | `Channel` | three envelopes; segments of two bytes, frames of five and six, reads of five, a limit of six | `TypeOK`, `BufferBounded`, `ImplementsFifo` | sizes 2, 3, 6 and 7: one segment, one byte more, the limit, beyond the limit; the threshold of eight lies inside the second frame |
| `presence` | `Presence` | two nodes, two statuses, two keys; two user actions or faults | `TypeOK`, `PinsSaved`, `ContactListed`, `PinsFinal`, `ViewsConverge`, `NoStorm` | a crash and a removal, or a change of key and a status, over a network that loses and reorders at will |
| `groups` | `MCGroups` | three nodes, two texts of two senders; two recalls, deletions or faults | `TypeOK`, `NoCopyForgotten`, `PreviewTruthful` | two members of one sender have a copy each; two texts arrive in either order |
| `avatars` | `Avatars` | two images, one too large for a request; one node with a full disk changes its image twice; one fault; three requests | `TypeOK`, `AvatarsConverge`, `PullsEnd` | the second change meets the answer of the first, and the limit is one more than the attempts that a fault and a late answer can cost |
| `sent_then_lost` | `MCDelivery` | smallest instance | `SentIsNotLost`, violated | |
| `directory_fails` | `MCTransfer` | one directory with one file, no fault | `FailedIsNotComplete`, violated | |
| `same_name` | `MCTransfer` | two files of one name at once | `WholeFiles`, violated under `overlap` | |

`MaxWire`, `MaxInbox` bound the channels, `MaxShakes` the count of shakes;
`MaxAge`, `DedupTTL` and `RecallWindow` keep the order of the code's constants
(the time to live is shorter than the age limit) on a scale of one or two ticks.
A longer channel only adds copies of messages the window already drops.
In `Transfer`, `MaxWire` is two: a chunk or an end of file may follow a lost one.
`MaxSpent`, `MaxEvents`, `MaxFaults` and `MaxChanges` count what users and faults
do, `MaxConns` and `MaxEnvelopes` what exists; where a bound could make a call or
a task wait for ever (no connection left to dial) the step fails instead.

Deadlock is not checked where the system may stop because users and faults have
spent what the bound gives them.

### Fairness

* `Delivery`: the tasks of the runtime (pump, reader, send call) and the clock go
  on, which tokio's scheduler and the one-second interval provide.  Nothing is
  asked of users, of faults or of presence; `QueueDrains` assumes that the peer
  eventually stays online because the clock flushes only peers that are not
  offline.  The run allows dials to be refused for ever: then the age limit has to
  empty the queue.
* `Transfer`: the drivers go on and their time-outs expire.  The model lets a
  time-out strike at any moment a session waits, also while the other end is at
  work; that adds behaviours and needs no clock.  Users, faults and the network
  owe nothing: an offer nobody decides on ends by `PENDING_TIMEOUT`.
* `SendJobs`: calls, retries and the pump go on, and sessions end, which is what
  `Transfer` shows.  Nobody has to decide on an offer.
* `Connections`: a call that has begun and the tasks of a connection go on.  A dial
  ends one way or the other because the handshake has a time-out.  A writer whose
  queue and sockets are full, and whose peer does not read, need not go on
  (`Blocked`).  A silent connection on which something was written is given up,
  which TCP's retransmission limit provides.
* `Channel`: the two tasks go on, and TCP hands over what it has.
* `Presence`: tickers and tasks go on; of infinitely many datagrams from one node to
  another infinitely many arrive (strong fairness, as datagrams may be lost), and
  none is under way for ever.
* `Avatars`: announcements get through at last, calls, tasks and connections go on.
  `Settled` is an assumption on time: a request for an image is repeated after
  one to six seconds and a fixed offset, so that the second and later ones meet a network in which
  the answer to the one before has arrived or is lost.  Without it all attempts
  could be used up while the first answer is under way.

## 5. Proofs

`DeliveryProofs` proves, for any sets of messages, any limits and any faults
(`KindsAssumption`, `BoundsAssumption`):

| Theorem | Statement |
|---|---|
| `TypeCorrect` | `Spec => []TypeOK` |
| `ReceiptsAreTruthful` | `Spec => []AcksTruthful` |
| `QueueKeepsTrying` | `Spec => []RetryUntilSettled` |
| `HistoriesAgree` | without crashes and failing writes of the sender, `Spec => []SenderKeepsWhatArrived` |
| `UnreadCounts` | without failing writes of the receiver, `Spec => []UnreadExact` |
| `RecallIsAgreed` | `Spec => []RecallOnBothSides` |
| `RecallIsFinal` | `Spec => RecallSticks` |
| `DeliveryIsMailbox` | `Spec => ImplementsMailbox` |

The argument.  `TypeOK` is inductive.  `AcksTruthful` is inductive with it
because it speaks of the receipts in both channels too: `ReceiptsNext` says where
a receipt can come from, `StoredNext` that stored rows stay.
`RetryUntilSettled` needs `AcksTruthful`: the only step that takes a row off
the queue early is a receipt.  `SenderKeepsWhatArrived` speaks of envelopes in
flight, which arrive only by `Transmit`, and `InFlightNext` gives the step that
put them there.  `RecallOnBothSides` is not inductive: a recall in flight must
already be marked at its sender.  `RecallMarked` is that strengthening; it
rests on `Begun`, which says that an envelope in flight or queued belongs to a
call that has begun.  The refinement follows from these: a confirmation needs a
stored row, an offer must come before it.

`PresenceProofs` proves, for any number of nodes, any statuses and keys, any
bounds and any faults (`PresenceAssumption`):

| Theorem | Statement |
|---|---|
| `TypeCorrect` | `Spec => []TypeOK` |
| `PinsAreSaved` | `Spec => []PinsSaved` |
| `PinsAreFinal` | `Spec => PinsFinal` |
| `ContactsListed` | `Spec => []ContactListed` |

The argument.  `TypeOK` is inductive because of its last conjuncts: an entry of the
peer table carries the pinned key, and a node that is down has neither entries nor
events, so that `Start` may replace its pins.  A key that is pinned for the first
time therefore has no entry in the table, and `handle_datagram` reports it: this is
why `PinsSaved` holds after `Receive` (`QueueAfterReceive`).  The pump takes one
event, and the others stay in its queue (`QueueAfterSeen`).  `PinsFinal` follows:
only the pump writes the file, of a node that is up, and there `PinsSaved` makes a
key in the file equal to the one in memory.  `ContactListed` is inductive with
`TypeOK`; each step that takes away one of its reasons puts another in place.

`TransferProofs` proves, for any transfers, any manifests (each path once in a
manifest, none empty), any sizes, bounds and number of versions
(`TransfersAssumption`):

| Theorem | Statement |
|---|---|
| `TypeCorrect` | `Spec => []TypeOK` |
| `SenderAgrees` | `Spec => []CompletedAgrees` |
| `FilesAreWhole` | `Calm => (Spec => []WholeFiles)` |
| `DiskIsFileCopy` | `Calm => (Spec => ImplementsFileCopy)` |
| `GoodCopiesStay` | `Calm => (Spec => GoodCopyKept)` |

`Calm` says that `Faults` has neither `overlap` nor `editLive`, the condition under
which the three properties are stated and which the run `transfer_resume` meets; the
run `same_name` shows that `WholeFiles` fails with `overlap`, and with `editLive`
both ends hash the same mixture.  All other faults are allowed, together and any
number of times.

The argument has two invariants.  `IInv` follows each file of one transfer through
its stages: still to be opened, asked for, streamed, its end under way.  A file is in
one stage and passes each once (`Stages`), and `Owed` counts: a sender that is not
done has not served all entries, and when it has failed the receiver will miss one
for ever, unless it has failed too.  `CompletedAgrees` is the case in which nothing
is left.  `FilesInv` is about the disk.  Two sessions that can still receive data
write to different destinations (`Apart`, from `Alone` in `ChooseName`; a session
whose sender is gone is a `Zombie` and writes no more).  A file has one name, and
was created for it by a transfer that has passed this entry (`Disk`), so `OpenPart`
creates files that are new.  The open file of a session is its destination's `.part`
file and holds exactly what the session has hashed, and the final name is still free
(`Place`).  `Contents` orders versions: what a session has hashed, and what is on
its way to it, is no newer than the version of the end of the file that follows it,
and that is no newer than the source.  `WholeFiles` then follows when the hashes
agree.  `GoodCopyKept` needs the order: when the hashes differ and the `.part` file
is the source as it is now, the end was of an older version, but what the session
has is not newer than that.  Most steps open no file and write to none; `StillKeeps`
and `ContentsKept` deal with all of them at once.

`ConnectionsProofs` proves, for two nodes, any finite set of calls, any number of
connections and any length of the queues (`ConnectionsAssumption`):

| Theorem | Statement |
|---|---|
| `TypeCorrect` | `Spec => []TypeOK` |
| `OneDialAtATime` | `Spec => []OneDial` |
| `OnlyDeadConnectionsLose` | `Spec => []LostOnlyWithConnection` |

`OneDial` counts calls, and its proof turns on the set of calls that dial: the lock is
taken exactly when it is not empty, and it has at most one element (`Locked`).
`LostOnlyWithConnection` needs to know where a call stands: the connection of a call
that has got a queue was registered at its node, that of one in the handshake was not
(`Held`), and an end has a writer from its registration on, with the calls of its own
node in its queue (`Ends`).

`SendJobsProofs` proves, for any files, updates and offers and any number of
retries (`SendJobsAssumption`):

| Theorem | Statement |
|---|---|
| `TypeCorrect` | `Spec => []TypeOK` |
| `OneSessionAtATime` | `Spec => []OneSession` |
| `HistoryIsTruthful` | `Spec => []RowsTruthful` |

Neither invariant is inductive.  `SessionsOK` numbers the sessions of a job and lets
only the newest be under way.  That a retry starts no session beside a live one
rests on `JobsOK` (a retry task runs only while nothing of its job is remembered, and
after the session before has ended) and on `Events`: what the pump still has to
handle says how its session stands.  `RowsOK` is `RowsTruthful` with what the row of
a session that is still to be renamed may say.

`ChannelProofs` proves, for any sizes of envelopes, segments, frames, reads and of
the threshold (`ChannelAssumption`):

| Theorem | Statement |
|---|---|
| `TypeCorrect` | `Spec => []TypeOK` |
| `BufferIsBounded` | `Spec => []BufferBounded` |
| `StreamIsFifo` | `Spec => Stream!Safety` |

`Chained` says that the segments under way continue what the reader has put together
and lead to what the writer does next: there is a place for each in an accepted
envelope, the next starts where it stops, and their nonces follow each other.  Hence
what the reader completes is the next envelope, whole.  `Compacted` bounds the
buffer.  `Bytes`, the length of a sequence of frames, is a recursive function, so
what it computes needs an induction; the library's theorems for this take an
operator as parameter and cannot be used, and `Descent` derives the first-order
instance that is needed from the well-founded order of the finite sets.

`GroupsProofs` proves, for any nodes, any finite set of texts and any bounds
(`GroupsAssumption`):

| Theorem | Statement |
|---|---|
| `TypeCorrect` | `Spec => []TypeOK` |
| `CopiesAreKept` | `Spec => []NoCopyForgotten` |
| `PreviewsAreTruthful` | `Spec => []PreviewTruthful` |

`NoCopyForgotten` is inductive with `TypeOK`; the queue is keyed by message and
member, so that a copy leaves it only when it is sent or too old.
`PreviewTruthful` goes over the store's statements one by one: inserting a row,
filing it under another conversation, recalling and deleting each keep a
conversation `Truthful`, whatever its order against the others.

`AvatarsProofs` proves `Spec => []TypeOK` (`TypeCorrect`), for any images and
limits (`AvatarsAssumption`); what else is said of avatars is liveness.

The strengthened invariants of `Transfer`, `Connections` and `SendJobs` also hold in
TLC on the instances of the runs; `Chained`, which asks for functions into the
natural numbers, is beyond TLC and only proved.

Only model-checked, because it is outside the prover's reach: everything that is
liveness, with the fairness it rests on (`QueueDrains`, `SessionsEnd`, `CallsReturn`,
`NoBlackHole`, `RetryConcludes`, `OffersSettle`, `ViewsConverge`, `NoStorm`,
`AvatarsConverge`, `PullsEnd`, and that `ImplementsFifo` delivers in the end).  No
safety property of a passing run is left without a theorem.

## 6. What the code does otherwise than the documents say

Each with a run:

* A text that was sent directly is not queued; when its connection dies it is
  lost, although README.md promises that no message is (`sent_then_lost`).
* The sender counts the directories of a manifest among the files it has to serve,
  the receiver never asks for them: sending a directory always ends in a time-out,
  a reported failure and a second copy (`directory_fails`).
* Two transfers of one name at the same time share a `.part` file, although
  docs/PROTOCOL.md promises parallel sessions and verified files (`same_name`).

Behaviours of the models that hold no stated property to account, and yet differ
from what a document or a comment says:

* The deduplication window (300 s, 4096 entries) is shorter than the resending of
  rows that are never acknowledged (600 s); docs/ARCHITECTURE.md says exactly
  once.  A shake may shake twice (`Delivery`, `HandleShake`).
* A recall can overtake the queued message it withdraws, which then appears and
  stays; docs/ARCHITECTURE.md says it must not (`Delivery`, `HandleRecall`).
* A group text that is flushed before its call has filed it is filed under the
  member; a recall then goes to that member only (`Groups`, `FlushText`,
  `Audience`).
* The row of an offer nobody decides on says active until the next start: the
  session ends silently after 300 s.  The comment at session.rs:672 expects the
  sender's `FileAbort` to end it before, but the sender's own time-out (120 s) sends
  none (`SendJobs`, `OfferExpires`; the exception in `OffersSettle`).
* A session that breaks between its start and `Remember` is not retried, although
  README.md promises two retries, and one that ends before `Record` leaves a row
  that says active until the next start (`SendJobs`).
* A reader looks and removes under two locks; the connection registered between
  them loses its entry, which the comment beside it means to exclude
  (`Connections`, `ReadEnds` and `CleanUp`).  The next call then dials once more.
* An idle connection to a peer that vanished without FIN or RST stays in the table,
  and the next envelope put into it is lost with it (`Connections`, `Silence`; this
  is why `NoBlackHole` speaks of a silent connection only once something was
  written).
* When both readers of a connection fail while both queues and the sockets are
  full, each writer waits for a peer that reads no more; the entries are gone, but
  calls that wait for room in these queues never return (`Connections`, `Stuck`, the
  exception in `CallsReturn`).  The comment of `reader_task` (net lib.rs:1160) says that any
  failure cleans the connection up.

## 7. Not modelled, and what is left

Not modelled:

* Cryptography: keys, signatures and hashes are model values that do not collide.
* The encoding of messages and the guard against malformed input
  (`codec.rs`, `msgpack_guard.rs`): functions of their input, without state.
* The user interfaces, which forward commands and render events.
* Updates: the comparison of versions and the script that installs a package; the
  transfer of a package is in `SendJobs`.
* Sockets, network interfaces and the scan of a subnet.
* Search, paging and flags of conversations, and the migration of databases of
  older versions.
* The end of the pump on missed events, but in `SendJobs`: in `Delivery`, `Groups`
  and `Presence` it lives as long as its process.
* A second statement that fails while a recall marks its own row (`MarkRecall`).
* An avatar above 1 MiB, whose reply would end the receiver's connection: the
  desktop writes images of 256 by 256 pixels, which stay below.
* Errors of the file operations of the pins: `Presence` saves and loads without
  fail.
* Back-pressure between file sessions that share a connection, in both directions
  at once: it needs `Transfer` twice over `Connections`, which is beyond TLC.

Left to do, in this order:

1. Failing statements of the store in `Groups` and `SendJobs`.
2. The deduplication window and `compare_versions` as pure algorithms against
   reference definitions.
