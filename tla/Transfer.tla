------------------------------ MODULE Transfer ------------------------------
(***************************************************************************)
(* File transfers from one node, the sender, to another, the receiver: the *)
(* two session drivers of fq-net (transfer/session.rs) and the files they  *)
(* leave on the receiver's disk.  A transfer has a token; both ends keep a *)
(* session for it, and any number of transfers run at once.                *)
(*                                                                         *)
(* A block of a file is the version of the source it was read from, a file *)
(* is a sequence of blocks, and a hash is the sequence it was computed     *)
(* over.  A file on disk is identified by the transfer that created it and *)
(* keeps its identity when it is renamed, as an inode does.                *)
(***************************************************************************)
EXTENDS Naturals, Sequences, FiniteSets, Functions

CONSTANTS
    Tokens,     \* transfers
    Files,      \* paths of files
    Dirs,       \* paths of directories
    Manifest,   \* the entries of each transfer, in order
    Size,       \* blocks of each file
    MaxVersion, \* bound: versions of a source file
    MaxWire,    \* bound: messages under way in one transfer, per direction
    NoFile,     \* no file has this path
    Faults      \* the kinds of fault that may happen

Entries == Files \cup Dirs
EntriesOf(t) == Range(Manifest[t])

\* break: a connection dies; refuse: no connection can be made; crashA, crashB:
\* the process of the sender, of the receiver, ends; readA: the sender cannot
\* read a file; diskB: the receiver cannot write one; edit: a source file
\* changes while nobody reads it; editLive: also while it is read; overlap: two
\* live transfers write files of the same name.
FaultKinds == {"break", "refuse", "crashA", "crashB", "readA", "diskB",
               "edit", "editLive", "overlap"}

ASSUME TransfersAssumption ==
    /\ IsFiniteSet(Tokens)
    /\ Files # {} /\ Files \cap Dirs = {}
    /\ Manifest \in [Tokens -> Seq(Entries) \ {<<>>}]
    /\ \A t \in Tokens : IsInjective(Manifest[t])
    /\ Size \in [Files -> Nat \ {0}]
    /\ MaxVersion \in Nat \ {0}
    /\ MaxWire \in Nat
    /\ NoFile \notin Tokens \X Files
    /\ Faults \subseteq FaultKinds

VARIABLES
    source,    \* version of each source file
    \* sender_driver
    sState,    \* phase of the session
    sEntry,    \* the file being streamed
    sFrom,     \* the offset asked for
    sHash,     \* blocks read, and hashed, of that file
    served,    \* files streamed to the end
    cancelled, \* the cancel flag of the sender's session
    \* the network and the queues of the sessions
    toB, toA,
    \* receiver_driver
    rState,    \* phase of the session
    todo,      \* entries still to be received, the current one first
    name,      \* number of the destination's name: "f", "f (1)", ...
    inode,     \* the file the session writes to
    appending, \* it was opened to append, for a resume
    rHash,     \* blocks hashed of the current file
    \* the receiver's disk
    data,      \* content of each file
    part,      \* the .part file of each destination
    final      \* the finished file of each destination

senderVars == <<sState, sEntry, sFrom, sHash, served, cancelled>>
netVars == <<toB, toA>>
sessionVars == <<rState, todo, name, inode, appending, rHash>>
diskVars == <<data, part, final>>
vars == <<source, senderVars, netVars, sessionVars, diskVars>>

Names == 1 .. Cardinality(Tokens)
Paths == Files \X Names
Inodes == Tokens \X Files
Blocks == 0 .. MaxVersion  \* 0: a hole in a file

Messages ==
    [kind : {"offer", "abort"}]
      \cup [kind : {"request"}, file : Files, offset : Nat]
      \cup [kind : {"chunk"}, file : Files, at : Nat, block : Blocks]
      \cup [kind : {"done"}, file : Files, hash : Seq(Blocks)]

Current(t) == Head(todo[t])
Destination(t) == <<Current(t), name[t]>>

\* The session can still receive something.
Live(t) == sState[t] \in {"open", "streaming"} \/ toB[t] # <<>>
Receiving(t) == rState[t] \in {"opening", "waiting"}

SenderTypeOK ==
    /\ source \in [Files -> 1 .. MaxVersion]
    /\ sState \in [Tokens -> {"none", "open", "streaming", "done", "failed"}]
    /\ sEntry \in [Tokens -> Files]
    /\ sFrom \in [Tokens -> Nat]
    /\ sHash \in [Tokens -> Seq(Blocks)]
    /\ \A t \in Tokens : Len(sHash[t]) <= Size[sEntry[t]]
    /\ served \in [Tokens -> SUBSET Files]
    /\ cancelled \in [Tokens -> BOOLEAN]
NetTypeOK == toB \in [Tokens -> Seq(Messages)] /\ toA \in [Tokens -> Seq(Messages)]
SessionTypeOK ==
    /\ rState \in [Tokens -> {"none", "pending", "setup", "opening", "waiting",
                              "done", "failed"}]
    /\ todo \in [Tokens -> Seq(Entries)]
    /\ \A t \in Tokens : Receiving(t) => todo[t] # <<>> /\ Current(t) \in Files
    /\ name \in [Tokens -> Names]
    /\ inode \in [Tokens -> Inodes]
    /\ appending \in [Tokens -> BOOLEAN]
    /\ rHash \in [Tokens -> Seq(Blocks)]
DiskTypeOK ==
    /\ data \in [Inodes -> Seq(Blocks)]
    /\ part \in [Paths -> Inodes \cup {NoFile}]
    /\ final \in [Paths -> Inodes \cup {NoFile}]

\* The values of the variables; no stream reads past the end of its file, and a
\* session that receives has a file to receive.
TypeOK == SenderTypeOK /\ NetTypeOK /\ SessionTypeOK /\ DiskTypeOK

AnyFile == CHOOSE f \in Files : TRUE

Init ==
    /\ source = [f \in Files |-> 1]
    /\ sState = [t \in Tokens |-> "none"]
    /\ sEntry = [t \in Tokens |-> AnyFile]
    /\ sFrom = [t \in Tokens |-> 0]
    /\ sHash = [t \in Tokens |-> <<>>]
    /\ served = [t \in Tokens |-> {}]
    /\ cancelled = [t \in Tokens |-> FALSE]
    /\ toB = [t \in Tokens |-> <<>>] /\ toA = [t \in Tokens |-> <<>>]
    /\ rState = [t \in Tokens |-> "none"]
    /\ todo = [t \in Tokens |-> <<>>]
    /\ name = [t \in Tokens |-> 1]
    /\ inode = [t \in Tokens |-> <<t, AnyFile>>]
    /\ appending = [t \in Tokens |-> FALSE]
    /\ rHash = [t \in Tokens |-> <<>>]
    /\ data = [i \in Inodes |-> <<>>]
    /\ part = [p \in Paths |-> NoFile]
    /\ final = [p \in Paths |-> NoFile]

-----------------------------------------------------------------------------
(* The network: send_direct and the sessions' queues. *)

Abort == [kind |-> "abort"]

\* send_direct returned Ok: the message is on its way.
ToReceiver(t, m) == Len(toB[t]) < MaxWire /\ toB' = [toB EXCEPT ![t] = Append(@, m)]
ToSender(t, m) == Len(toA[t]) < MaxWire /\ toA' = [toA EXCEPT ![t] = Append(@, m)]

\* send_direct returns an error: the dial failed, or the connection in the table
\* has no writer any more.
SendMayFail == Faults \cap {"break", "refuse"} # {}

\* An abort is sent, and nobody asks whether that succeeded.
TellReceiver(t) == ToReceiver(t, Abort) \/ (SendMayFail /\ UNCHANGED toB)
TellSender(t) == ToSender(t, Abort) \/ (SendMayFail /\ UNCHANGED toA)

\* A connection dies: what its writer, the sockets and its reader still held of
\* a transfer is lost, what was routed to a session is not.  The next
\* send_direct dials again.
Break(t) ==
    /\ "break" \in Faults
    /\ \E i \in 0 .. Len(toB[t]), j \in 0 .. Len(toA[t]) :
         /\ toB' = [toB EXCEPT ![t] = SubSeq(@, 1, i)]
         /\ toA' = [toA EXCEPT ![t] = SubSeq(@, 1, j)]
    /\ UNCHANGED <<source, senderVars, sessionVars, diskVars>>

\* route, TransferManager::dispatch: a message without a session is dropped.
Drop(t) ==
    /\ \/ /\ toB[t] # <<>>
          /\ \/ rState[t] \in {"done", "failed"}
             \/ rState[t] = "none" /\ Head(toB[t]).kind # "offer"
          /\ toB' = [toB EXCEPT ![t] = Tail(@)]
          /\ UNCHANGED toA
       \/ /\ sState[t] \in {"done", "failed"} /\ toA[t] # <<>>
          /\ toA' = [toA EXCEPT ![t] = Tail(@)]
          /\ UNCHANGED toB
    /\ UNCHANGED <<source, senderVars, sessionVars, diskVars>>

-----------------------------------------------------------------------------
(* The sender. *)

\* stream_entry returned: its locals are gone.
StreamEnds(ts) ==
    /\ sEntry' = [t \in Tokens |-> IF t \in ts THEN AnyFile ELSE sEntry[t]]
    /\ sFrom' = [t \in Tokens |-> IF t \in ts THEN 0 ELSE sFrom[t]]
    /\ sHash' = [t \in Tokens |-> IF t \in ts THEN <<>> ELSE sHash[t]]

\* sender_driver returned and its session is removed.
SenderEnds(ts, how) ==
    /\ sState' = [t \in Tokens |-> IF t \in ts THEN how ELSE sState[t]]
    /\ StreamEnds(ts)
    /\ served' = [t \in Tokens |-> IF t \in ts THEN {} ELSE served[t]]
    /\ cancelled' = [t \in Tokens |-> cancelled[t] /\ t \notin ts]

\* stream_entry sent the end of a file: when as many files are served as the
\* manifest has entries, directories included, the transfer is complete.
FileServed(t) ==
    LET now == served[t] \cup {sEntry[t]} IN
    IF now = EntriesOf(t) THEN SenderEnds({t}, "done")
    ELSE /\ served' = [served EXCEPT ![t] = now]
         /\ sState' = [sState EXCEPT ![t] = "open"]
         /\ StreamEnds({t})
         /\ UNCHANGED cancelled

\* start_send: the session is registered and the offer sent.
Offer(t) ==
    /\ sState[t] = "none"
    /\ ToReceiver(t, [kind |-> "offer"])
    /\ sState' = [sState EXCEPT ![t] = "open"]
    /\ UNCHANGED <<source, sEntry, sFrom, sHash, served, cancelled, toA,
                   sessionVars, diskVars>>

\* sender_driver: a request starts the stream of one file.
HandleRequest(t) ==
    /\ sState[t] = "open"
    /\ toA[t] # <<>>
    /\ Head(toA[t]).kind = "request"
    /\ sState' = [sState EXCEPT ![t] = "streaming"]
    /\ sEntry' = [sEntry EXCEPT ![t] = Head(toA[t]).file]
    /\ sFrom' = [sFrom EXCEPT ![t] = Head(toA[t]).offset]
    /\ sHash' = [sHash EXCEPT ![t] = <<>>]
    /\ toA' = [toA EXCEPT ![t] = Tail(@)]
    /\ UNCHANGED <<source, served, cancelled, toB, sessionVars, diskVars>>

\* mutant: one block too many is read
StreamBlockTooFar(t) ==
    /\ sState[t] = "streaming"
    /\ ~cancelled[t]
    /\ Len(sHash[t]) <= Size[sEntry[t]]
    /\ sHash' = [sHash EXCEPT ![t] = Append(@, source[sEntry[t]])]
    /\ IF Len(sHash[t]) < sFrom[t]
       THEN UNCHANGED toB
       ELSE ToReceiver(t, [kind |-> "chunk", file |-> sEntry[t],
                           at |-> Len(sHash[t]), block |-> source[sEntry[t]]])
    /\ UNCHANGED <<source, sState, sEntry, sFrom, served, cancelled, toA,
                   sessionVars, diskVars>>

\* stream_entry: the next block is read and hashed; up to the offset that is all
\* (hash_prefix), after it the block is sent.
StreamBlock(t) ==
    /\ sState[t] = "streaming"
    /\ ~cancelled[t]
    /\ Len(sHash[t]) < Size[sEntry[t]]
    /\ sHash' = [sHash EXCEPT ![t] = Append(@, source[sEntry[t]])]
    /\ IF Len(sHash[t]) < sFrom[t]
       THEN UNCHANGED toB
       ELSE ToReceiver(t, [kind |-> "chunk", file |-> sEntry[t],
                           at |-> Len(sHash[t]), block |-> source[sEntry[t]]])
    /\ UNCHANGED <<source, sState, sEntry, sFrom, served, cancelled, toA,
                   sessionVars, diskVars>>

\* mutants: the session does not notice that all files are served; on a resume
\* only the blocks sent are hashed
StreamDoneStaysOpen(t) ==
    /\ sState[t] = "streaming"
    /\ ~cancelled[t]
    /\ Len(sHash[t]) = Size[sEntry[t]]
    /\ ToReceiver(t, [kind |-> "done", file |-> sEntry[t], hash |-> sHash[t]])
    /\ served' = [served EXCEPT ![t] = @ \cup {sEntry[t]}]
    /\ sState' = [sState EXCEPT ![t] = "open"]
    /\ StreamEnds({t})
    /\ UNCHANGED <<source, cancelled, toA, sessionVars, diskVars>>

StreamDoneHashesRest(t) ==
    /\ sState[t] = "streaming"
    /\ ~cancelled[t]
    /\ Len(sHash[t]) = Size[sEntry[t]]
    /\ ToReceiver(t, [kind |-> "done", file |-> sEntry[t],
                      hash |-> SubSeq(sHash[t], sFrom[t] + 1, Len(sHash[t]))])
    /\ FileServed(t)
    /\ UNCHANGED <<source, toA, sessionVars, diskVars>>

\* The end of the file: its hash is sent, and the transfer is complete for the
\* sender when it has served as many files as the manifest has entries,
\* directories included.
StreamDone(t) ==
    /\ sState[t] = "streaming"
    /\ ~cancelled[t]
    /\ Len(sHash[t]) = Size[sEntry[t]]
    /\ ToReceiver(t, [kind |-> "done", file |-> sEntry[t], hash |-> sHash[t]])
    /\ FileServed(t)
    /\ UNCHANGED <<source, toA, sessionVars, diskVars>>

\* The stream stops: cancelled by the user, a file that cannot be opened, read
\* or sent.  The receiver is told.
StreamFails(t) ==
    /\ sState[t] = "streaming"
    /\ cancelled[t] \/ "readA" \in Faults \/ SendMayFail
    /\ TellReceiver(t)
    /\ SenderEnds({t}, "failed")
    /\ UNCHANGED <<source, toA, sessionVars, diskVars>>

\* TransferManager::cancel sets the flag; an idle session wakes up and aborts.
CancelSend(t) ==
    /\ sState[t] \in {"open", "streaming"}
    /\ ~cancelled[t]
    /\ cancelled' = [cancelled EXCEPT ![t] = TRUE]
    /\ UNCHANGED <<source, sState, sEntry, sFrom, sHash, served, netVars,
                   sessionVars, diskVars>>

SenderCancelled(t) ==
    /\ sState[t] = "open"
    /\ cancelled[t]
    /\ TellReceiver(t)
    /\ SenderEnds({t}, "failed")
    /\ UNCHANGED <<source, toA, sessionVars, diskVars>>

\* The receiver's abort ends the session, once it is read.
SenderAborted(t) ==
    /\ sState[t] = "open"
    /\ toA[t] # <<>>
    /\ Head(toA[t]).kind = "abort"
    /\ SenderEnds({t}, "failed")
    /\ toA' = [toA EXCEPT ![t] = Tail(@)]
    /\ UNCHANGED <<source, toB, sessionVars, diskVars>>

\* IDLE_TIMEOUT without a request: the session fails and tells nobody.
SenderTimeout(t) ==
    /\ sState[t] = "open"
    /\ SenderEnds({t}, "failed")
    /\ UNCHANGED <<source, netVars, sessionVars, diskVars>>

CrashSender ==
    /\ "crashA" \in Faults
    /\ SenderEnds({t \in Tokens : sState[t] \in {"open", "streaming"}}, "failed")
    /\ toA' = [t \in Tokens |-> <<>>]
    /\ UNCHANGED <<source, toB, sessionVars, diskVars>>

\* Somebody changes a source file.
Edit(f) ==
    /\ \/ "editLive" \in Faults
       \/ "edit" \in Faults /\ \A t \in Tokens : sState[t] = "streaming" => sEntry[t] # f
    /\ source[f] < MaxVersion
    /\ source' = [source EXCEPT ![f] = @ + 1]
    /\ UNCHANGED <<senderVars, netVars, sessionVars, diskVars>>

-----------------------------------------------------------------------------
(* The receiver. *)

Received(t, kind) == toB[t] # <<>> /\ Head(toB[t]).kind = kind
Consume(t) == toB' = [toB EXCEPT ![t] = Tail(@)]

\* The current file is closed.
EntryEnds(ts) ==
    /\ name' = [t \in Tokens |-> IF t \in ts THEN 1 ELSE name[t]]
    /\ inode' = [t \in Tokens |-> IF t \in ts THEN <<t, AnyFile>> ELSE inode[t]]
    /\ appending' = [t \in Tokens |-> appending[t] /\ t \notin ts]
    /\ rHash' = [t \in Tokens |-> IF t \in ts THEN <<>> ELSE rHash[t]]

\* receiver_driver returned and its session is removed; a .part file stays.
ReceiverEnds(ts, how) ==
    /\ rState' = [t \in Tokens |-> IF t \in ts THEN how ELSE rState[t]]
    /\ todo' = [t \in Tokens |-> IF t \in ts THEN <<>> ELSE todo[t]]
    /\ EntryEnds(ts)

\* route: an offer opens a session, which waits for the user's decision.
ReceiveOffer(t) ==
    /\ rState[t] = "none"
    /\ Received(t, "offer")
    /\ Consume(t)
    /\ rState' = [rState EXCEPT ![t] = "pending"]
    /\ UNCHANGED <<source, senderVars, toA, todo, name, inode, appending, rHash, diskVars>>

Accept(t) ==
    /\ rState[t] = "pending"
    /\ rState' = [rState EXCEPT ![t] = "setup"]
    /\ todo' = [todo EXCEPT ![t] = Manifest[t]]
    /\ UNCHANGED <<source, senderVars, netVars, name, inode, appending, rHash, diskVars>>

\* The user rejects the offer or cancels the transfer: the sender is told.
CancelReceive(t) ==
    /\ rState[t] \in {"pending", "setup", "waiting"}
    /\ ReceiverEnds({t}, "failed")
    /\ TellSender(t)
    /\ UNCHANGED <<source, senderVars, toB, diskVars>>

\* The sender's abort ends the session.
ReceiveAbort(t) ==
    /\ rState[t] \in {"pending", "waiting"}
    /\ Received(t, "abort")
    /\ Consume(t)
    /\ ReceiverEnds({t}, "failed")
    /\ UNCHANGED <<source, senderVars, toA, diskVars>>

\* mutant: only the decision of the user is waited for with a limit
ReceiverTimeoutPending(t) ==
    /\ rState[t] = "pending"
    /\ ReceiverEnds({t}, "failed")
    /\ UNCHANGED <<source, senderVars, netVars, diskVars>>

\* PENDING_TIMEOUT, IDLE_TIMEOUT: nobody is told.
ReceiverTimeout(t) ==
    /\ rState[t] \in {"pending", "waiting"}
    /\ ReceiverEnds({t}, "failed")
    /\ UNCHANGED <<source, senderVars, netVars, diskVars>>

\* A directory is created at once.
CreateDir(t) ==
    /\ rState[t] = "setup"
    /\ todo[t] # <<>>
    /\ Current(t) \in Dirs
    /\ todo' = [todo EXCEPT ![t] = Tail(@)]
    /\ UNCHANGED <<source, senderVars, netVars, rState, name, inode, appending,
                   rHash, diskVars>>

\* No other transfer is about to write, or still gets data for, a file of this name.
Alone(t) ==
    \A u \in Tokens \ {t} :
        Receiving(u) /\ Current(u) = Current(t) => rState[u] = "waiting" /\ ~Live(u)

\* mutant: the name is not checked against the files that exist
ChooseNameOverwrites(t) ==
    /\ rState[t] = "setup"
    /\ todo[t] # <<>>
    /\ Current(t) \in Files
    /\ "overlap" \in Faults \/ Alone(t)
    /\ name' = [name EXCEPT ![t] = 1]
    /\ rState' = [rState EXCEPT ![t] = "opening"]
    /\ UNCHANGED <<source, senderVars, netVars, todo, inode, appending, rHash, diskVars>>

\* setup_entry, unique_destination: the first of the names f, f (1), ... that no
\* finished file has.
ChooseName(t) ==
    /\ rState[t] = "setup"
    /\ todo[t] # <<>>
    /\ Current(t) \in Files
    /\ "overlap" \in Faults \/ Alone(t)
    /\ \E n \in Names :
         /\ final[<<Current(t), n>>] = NoFile
         /\ \A k \in 1 .. n - 1 : final[<<Current(t), k>>] # NoFile
         /\ name' = [name EXCEPT ![t] = n]
    /\ rState' = [rState EXCEPT ![t] = "opening"]
    /\ UNCHANGED <<source, senderVars, netVars, todo, inode, appending, rHash, diskVars>>

\* setup_entry: a .part file of that name that is not too long is resumed, its
\* content hashed and new blocks appended; any other is emptied; a missing one is
\* created.  The request for the rest goes out.
OpenPart(t) ==
    LET f == Current(t)
        p == part[Destination(t)]
        i == IF p = NoFile THEN <<t, f>> ELSE p
        resume == data[i] # <<>> /\ Len(data[i]) <= Size[f]
        old == IF resume THEN data[i] ELSE <<>>
    IN /\ rState[t] = "opening"
       /\ ToSender(t, [kind |-> "request", file |-> f, offset |-> Len(old)])
       /\ rState' = [rState EXCEPT ![t] = "waiting"]
       /\ inode' = [inode EXCEPT ![t] = i]
       /\ appending' = [appending EXCEPT ![t] = resume]
       /\ rHash' = [rHash EXCEPT ![t] = old]
       /\ data' = [data EXCEPT ![i] = old]
       /\ part' = [part EXCEPT ![Destination(t)] = i]
       /\ UNCHANGED <<source, senderVars, toB, todo, name, final>>

\* Opening the file or sending the request fails.
OpenFails(t) ==
    /\ rState[t] = "opening"
    /\ "diskB" \in Faults \/ SendMayFail
    /\ ReceiverEnds({t}, "failed")
    /\ TellSender(t)
    /\ UNCHANGED <<source, senderVars, toB, diskVars>>

\* A block written where the session's file position is.
Written(t, old, block) ==
    IF appending[t] THEN Append(old, block)
    ELSE [k \in 1 .. (IF Len(old) > Len(rHash[t]) THEN Len(old) ELSE Len(rHash[t]) + 1) |->
            IF k = Len(rHash[t]) + 1 THEN block ELSE IF k <= Len(old) THEN old[k] ELSE 0]

\* Kind::FileChunk: the next block of the current file is hashed and written.
ReceiveChunk(t) ==
    LET m == Head(toB[t]) IN
    /\ rState[t] = "waiting"
    /\ Received(t, "chunk")
    /\ Consume(t)
    /\ IF m.file # Current(t) THEN UNCHANGED <<rHash, data>>
       ELSE /\ m.at = Len(rHash[t])
            /\ rHash' = [rHash EXCEPT ![t] = Append(@, m.block)]
            /\ data' = [data EXCEPT ![inode[t]] = Written(t, @, m.block)]
    /\ UNCHANGED <<source, senderVars, toA, rState, todo, name, inode, appending,
                   part, final>>

\* A block is missing, or cannot be written: the transfer is aborted.
ChunkFails(t) ==
    LET m == Head(toB[t]) IN
    /\ rState[t] = "waiting"
    /\ Received(t, "chunk")
    /\ m.file = Current(t)
    /\ m.at # Len(rHash[t]) \/ "diskB" \in Faults
    /\ Consume(t)
    /\ ReceiverEnds({t}, "failed")
    /\ TellSender(t)
    /\ UNCHANGED <<source, senderVars, diskVars>>

\* mutant: the hash is not compared
ReceiveDoneUnchecked(t) ==
    LET m == Head(toB[t]) IN
    /\ rState[t] = "waiting"
    /\ Received(t, "done")
    /\ Consume(t)
    /\ IF m.file # Current(t) THEN UNCHANGED <<sessionVars, part, final>>
       ELSE /\ part[Destination(t)] # NoFile
            /\ final' = [final EXCEPT ![Destination(t)] = part[Destination(t)]]
            /\ part' = [part EXCEPT ![Destination(t)] = NoFile]
            /\ rState' = [rState EXCEPT ![t] = "setup"]
            /\ todo' = [todo EXCEPT ![t] = Tail(@)]
            /\ EntryEnds({t})
    /\ UNCHANGED <<source, senderVars, toA, data>>

\* Kind::FileDone: the hashes agree and the .part file gets its final name.
ReceiveDone(t) ==
    LET m == Head(toB[t]) IN
    /\ rState[t] = "waiting"
    /\ Received(t, "done")
    /\ Consume(t)
    /\ IF m.file # Current(t) THEN UNCHANGED <<sessionVars, part, final>>
       ELSE /\ m.hash = rHash[t]
            /\ part[Destination(t)] # NoFile
            /\ final' = [final EXCEPT ![Destination(t)] = part[Destination(t)]]
            /\ part' = [part EXCEPT ![Destination(t)] = NoFile]
            /\ rState' = [rState EXCEPT ![t] = "setup"]
            /\ todo' = [todo EXCEPT ![t] = Tail(@)]
            /\ EntryEnds({t})
    /\ UNCHANGED <<source, senderVars, toA, data>>

\* The hashes differ and the .part file is removed; or it cannot be flushed or
\* renamed.  The transfer is aborted.
DoneFails(t) ==
    LET m == Head(toB[t]) IN
    /\ rState[t] = "waiting"
    /\ Received(t, "done")
    /\ m.file = Current(t)
    /\ Consume(t)
    /\ \/ /\ m.hash # rHash[t]
          /\ part' = [part EXCEPT ![Destination(t)] = NoFile]
       \/ /\ "diskB" \in Faults \/ (m.hash = rHash[t] /\ part[Destination(t)] = NoFile)
          /\ UNCHANGED part
    /\ ReceiverEnds({t}, "failed")
    /\ TellSender(t)
    /\ UNCHANGED <<source, senderVars, data, final>>

\* Nothing is left to receive.
Complete(t) ==
    /\ rState[t] = "setup"
    /\ todo[t] = <<>>
    /\ ReceiverEnds({t}, "done")
    /\ UNCHANGED <<source, senderVars, netVars, diskVars>>

CrashReceiver ==
    /\ "crashB" \in Faults
    /\ ReceiverEnds({t \in Tokens : rState[t] \notin {"none", "done"}}, "failed")
    /\ toB' = [t \in Tokens |-> <<>>]
    /\ UNCHANGED <<source, senderVars, toA, diskVars>>

-----------------------------------------------------------------------------
SenderStep(t) ==
    \/ HandleRequest(t) \/ StreamBlock(t) \/ StreamDone(t) \/ StreamFails(t)
    \/ SenderCancelled(t) \/ SenderAborted(t)

ReceiverStep(t) ==
    \/ ReceiveOffer(t) \/ ReceiveAbort(t) \/ CreateDir(t) \/ ChooseName(t)
    \/ OpenPart(t) \/ OpenFails(t) \/ ReceiveChunk(t) \/ ChunkFails(t)
    \/ ReceiveDone(t) \/ DoneFails(t) \/ Complete(t)

Next ==
    \/ \E t \in Tokens :
         \/ Offer(t) \/ CancelSend(t) \/ SenderTimeout(t) \/ SenderStep(t)
         \/ Accept(t) \/ CancelReceive(t) \/ ReceiverTimeout(t) \/ ReceiverStep(t)
         \/ Break(t) \/ Drop(t)
    \/ \E f \in Files : Edit(f)
    \/ CrashSender \/ CrashReceiver

Spec == Init /\ [][Next]_vars

\* The tasks of both nodes go on and their timers expire; users, faults and the
\* network owe nothing.
Fairness ==
    \A t \in Tokens :
        /\ WF_vars(SenderStep(t)) /\ WF_vars(SenderTimeout(t))
        /\ WF_vars(ReceiverStep(t)) /\ WF_vars(ReceiverTimeout(t))
        /\ WF_vars(Drop(t))

FairSpec == Spec /\ Fairness

-----------------------------------------------------------------------------
(* Properties. *)

WholeOf(f) == {[k \in 1 .. Size[f] |-> v] : v \in 1 .. MaxVersion}

\* A file that got its final name is one version of the source, complete and
\* unmixed, although it may have been received in several attempts between
\* which the source changed: setup_entry and hash_prefix hash the old part again
\* at both ends.  Holds unless the source changes while it is read, or two
\* transfers write files of one name at the same time.
WholeFiles ==
    \A p \in Paths : final[p] # NoFile => data[final[p]] \in WholeOf(p[1])

\* The disk as its user sees it: files only appear, complete, under new names.
Copy == INSTANCE FileCopy WITH
    copies <- [p \in Paths |-> IF final[p] = NoFile THEN <<>> ELSE data[final[p]]],
    Whole <- [p \in Paths |-> WholeOf(p[1])]

\* unique_destination never lets a transfer touch a file that is there, and no
\* session writes to a file after it got its final name.
ImplementsFileCopy == Copy!Spec

\* A transfer of files that is complete for the receiver did not fail for the
\* sender, which would send all of it again (sender_driver counts what it
\* served, event_pump retries what timed out).
CompletedAgrees ==
    \A t \in Tokens : rState[t] = "done" /\ EntriesOf(t) \subseteq Files
                        => sState[t] # "failed"

\* The receiver never throws away a complete copy of the source as it is, also
\* when it received the copy in several attempts (setup_entry, hash_prefix).
GoodCopyKept ==
    [][\A p \in Paths :
         part[p] # NoFile /\ data[part[p]] = [k \in 1 .. Size[p[1]] |-> source[p[1]]]
           => part'[p] = part[p] \/ final'[p] = part[p]]_vars

\* A transfer that was started ends at both ends, or never reached the
\* receiver: nobody waits for ever for a message that was lost or a peer that is
\* gone (IDLE_TIMEOUT, PENDING_TIMEOUT).
SessionsEnd ==
    \A t \in Tokens :
        sState[t] # "none" ~>
            /\ sState[t] \in {"done", "failed"}
            /\ rState[t] \in {"done", "failed"} \/ (rState[t] = "none" /\ toB[t] = <<>>)

-----------------------------------------------------------------------------
(* What the documentation says of transfers and the code does not do. *)

\* fq-net/src/lib.rs: a transfer fails because it was interrupted, its check or
\* the disk failed.  One that the receiver has completed did not fail.
FailedIsNotComplete ==
    \A t \in Tokens : sState[t] = "failed" => rState[t] # "done"

=============================================================================
